---- MODULE Spec2Model ----
(***************************************************************************)
(* A model of the specops compiler (Code.Compile and the splice layout of  *)
(* compile.go) and of the stack-transformation search (stack package).     *)
(*                                                                         *)
(* Bytes are the integers 0..255.  A Raw node is modelled by its length:   *)
(* its bytes are zero bytes (make(Raw, n)), so a buffer of n Raw bytes is  *)
(* the run [byte |-> 0, n |-> n]; the buffer of a splice and the compiled  *)
(* code are sequences of runs, read through ByteAt and OutLen.             *)
(***************************************************************************)
EXTENDS Integers, Sequences, FiniteSets, TLC

\* ------------------------------------------------------------------ bounds

\* The number of code fragments of a program drawn by Init.
MaxFrags == 4
\* The greatest number of tags of one pushTags node.
MaxTags == 2

\* The tags (names of JUMPDESTs and Labels) programs are written with.
Tags == {"a", "b"}
\* The lengths of the Raw nodes: they place tags at 255, 256, 65535, 65536.
RawSizes == {1, 254, 65535}

\* ------------------------------------------------------------------ opcodes

STOP == 0
ADD == 1
\* A byte that is no opcode: the table of stackDeltas has no row for it.
NoOp == 12
POP == 80
MSIZE == 89
JUMPDESTOp == 91
PUSH0 == 95
DUP1 == 128
SWAP1 == 144
MaxUint16 == 65535

\* --------------------------------------------------------------------- nodes

\* A Bytecoder of the flattened Code: kind, a number (the length of a Raw, the
\* depth of a SetDepth) and the tags it names.
Node(kind, n, tags) == [kind |-> kind, n |-> n, tags |-> tags]

Raw(n) == Node("Raw", n, <<>>)
SetDepth(n) == Node("SetDepth", n, <<>>)
JUMPDEST(t) == Node("JUMPDEST", 0, <<t>>)
Label(t) == Node("Label", 0, <<t>>)
pushTag(t) == Node("pushTag", 0, <<t>>)
pushTags(ts) == Node("pushTags", 0, ts)
pushSize(a, b) == Node("pushSize", 0, <<a, b>>)
\* A types.OpCode, Inverted(op), stack.ExpectDepth(n) and PUSH(v) of a uint64.
Op(o) == Node("Op", o, <<>>)
Inverted(o) == Node("Inverted", o, <<>>)
ExpectDepth(n) == Node("ExpectDepth", n, <<>>)
PUSH(v) == Node("PUSH", v, <<>>)
\* PUSHBytes(bs...) of a bytesPusher, and PUSHSelector(sig) where h is
\* crypto.Keccak256([]byte(sig))[:4]; the bytes are carried in the third field.
bytesPusher(bs) == Node("bytesPusher", 0, bs)
PUSHSelector(h) == Node("PUSHSelector", 0, h)
\* A Code of the Bytecoders bcs: a BytecodeHolder.
Code(bcs) == [kind |-> "Code", bcs |-> bcs]
\* Fn(bcs...) without the loop that swaps c[i] and c[j].
FnInOrder(bcs) == Code(bcs)

\* Fn(bcs...): the Code of bcs with c[i] and c[n-i-1] swapped for i < n/2.
Fn(bcs) == Code([j \in 1..Len(bcs) |-> bcs[Len(bcs) - j + 1]])

\* Code.flatten()
RECURSIVE flatten(_)
flatten(code) ==
    IF Len(code) = 0 THEN <<>>
    ELSE (IF code[1].kind = "Code" THEN flatten(code[1].bcs) ELSE <<code[1]>>)
         \o flatten(Tail(code))

\* The nil op of a splice that no lazyLocator ends.
NilOp == Node("nil", 0, <<>>)

\* The interfaces of compile.go and tags.go.
IsTagged(op) == op.kind \in {"JUMPDEST", "Label"}
IsLazyLocator(op) == op.kind \in {"JUMPDEST", "Label", "pushTag", "pushTags", "pushSize"}
IsPushLazy(op) == op.kind \in {"pushTag", "pushTags", "pushSize"}

\* ------------------------------------------------------------------- splices

\* splice.offset == nil
NilOffset == -1

\* new(splice): tags holds the indices (in the spliceConcat) of the splices
\* that s.tags points to.
NewSplice == [buf |-> <<>>, op |-> NilOp, offset |-> NilOffset, tags |-> <<>>, reserved |-> 0]

absDiff(a, b) == IF a - b < 0 THEN -(a - b) ELSE a - b

\* *s.tags[j].offset
TagOffset(ss, s, j) == ss[s.tags[j]].offset

bytesPerTag(ss, s) ==
    IF \E j \in 1..Len(s.tags) :
          TagOffset(ss, s, j) # NilOffset /\ TagOffset(ss, s, j) >= 256
    THEN 2 ELSE 1

bytesForSize(ss, s) ==
    LET t0 == TagOffset(ss, s, 1)
        t1 == TagOffset(ss, s, 2)
    IN IF t0 # NilOffset /\ t1 # NilOffset /\ absDiff(t0, t1) >= 256 THEN 2 ELSE 1

\* The loop of leadingZeroes for bytesPerTag() == 1, from tag j with n counted.
RECURSIVE leadingZeroes1(_, _, _, _)
leadingZeroes1(ss, s, j, n) ==
    IF j > Len(s.tags) THEN n
    ELSE IF TagOffset(ss, s, j) = NilOffset \/ TagOffset(ss, s, j) # 0 THEN n
    ELSE leadingZeroes1(ss, s, j + 1, n + 1)

\* The loop of leadingZeroes for bytesPerTag() == 2: the cases in the order of
\* the switch, so that an offset of 0 is taken by the first case.
RECURSIVE leadingZeroes2(_, _, _, _)
leadingZeroes2(ss, s, j, n) ==
    IF j > Len(s.tags) THEN n
    ELSE LET o == TagOffset(ss, s, j)
         IN CASE o = NilOffset \/ o < 256 -> n + 1
              [] o = 0 -> leadingZeroes2(ss, s, j + 1, n + 2)
              [] OTHER -> n

leadingZeroes(ss, s) ==
    IF Len(s.tags) = 0 THEN 0
    ELSE IF s.op.kind = "pushSize"
    THEN LET n == bytesForSize(ss, s)
             t0 == TagOffset(ss, s, 1)
             t1 == TagOffset(ss, s, 2)
         IN CASE t0 = NilOffset \/ t1 = NilOffset \/ t0 = t1 -> n
              [] n = 1 -> 0
              [] n = 2 -> IF absDiff(t0, t1) < 256 THEN 1 ELSE 0
    ELSE IF bytesPerTag(ss, s) = 1 THEN leadingZeroes1(ss, s, 1, 0)
    ELSE leadingZeroes2(ss, s, 1, 0)

extraBytesNeeded(ss, s) ==
    CASE s.op.kind = "nil" -> 0
      [] s.op.kind = "Label" -> 0
      [] s.op.kind = "pushSize" -> 1 + bytesForSize(ss, s) - leadingZeroes(ss, s)
      [] OTHER -> 1 + Len(s.tags) * bytesPerTag(ss, s) - leadingZeroes(ss, s)

\* ------------------------------------------------------------ bytes and PUSH

RECURSIVE Pow256(_)
Pow256(n) == IF n = 0 THEN 1 ELSE 256 * Pow256(n - 1)

\* binary.BigEndian.PutUint64(buf, v) followed by buf[8-n:]: the low n bytes.
BigEndianLow(v, n) == [j \in 1..n |-> (v \div Pow256(n - j)) % 256]

\* The value of a byte string read as a big-endian unsigned integer.
RECURSIVE BytesValue(_)
BytesValue(bs) ==
    IF Len(bs) = 0 THEN 0
    ELSE 256 * BytesValue(SubSeq(bs, 1, Len(bs) - 1)) + bs[Len(bs)]

\* The number of leading zero bytes of buf.
RECURSIVE LeadingZeroBytes(_)
LeadingZeroBytes(buf) ==
    IF Len(buf) = 0 \/ buf[1] # 0 THEN 0 ELSE 1 + LeadingZeroBytes(Tail(buf))

\* pusher.Bytecode() without the loop that shortens size.
PUSHBytesKeepZeroes(buf) ==
    LET n == Len(buf)
    IN IF n = 0 \/ n > 32 THEN [err |-> "len(ToPush()) must be in [1,32]", code |-> <<>>]
       ELSE [err |-> "", code |-> <<PUSH0 + n>> \o buf]

\* pusher.Bytecode(), as reached from PUSHBytes(buf...).Bytecode().
PUSHBytes(buf) ==
    LET n == Len(buf)
        size == n - LeadingZeroBytes(buf)
    IN IF n = 0 \/ n > 32 THEN [err |-> "len(ToPush()) must be in [1,32]", code |-> <<>>]
       ELSE IF size = 0 THEN [err |-> "", code |-> <<PUSH0>>]
       ELSE [err |-> "", code |-> <<PUSH0 + size>> \o SubSeq(buf, n - size + 1, n)]

\* The compiled code is a sequence of runs [byte, n] (n copies of byte).
Run(b, n) == [byte |-> b, n |-> n]

RECURSIVE BytesToRuns(_)
BytesToRuns(bs) ==
    IF Len(bs) = 0 THEN <<>> ELSE <<Run(bs[1], 1)>> \o BytesToRuns(Tail(bs))

RECURSIVE OutLen(_)
OutLen(o) == IF Len(o) = 0 THEN 0 ELSE o[1].n + OutLen(Tail(o))

\* bytes.Buffer.Write of n copies of byte b, and of the bytes bs.
WriteRun(buf, b, n) ==
    IF n = 0 THEN buf
    ELSE IF Len(buf) > 0 /\ buf[Len(buf)].byte = b
    THEN [buf EXCEPT ![Len(buf)].n = @ + n]
    ELSE Append(buf, Run(b, n))

RECURSIVE Write(_, _)
Write(buf, bs) ==
    IF Len(bs) = 0 THEN buf ELSE Write(WriteRun(buf, bs[1], 1), Tail(bs))

\* ------------------------------------------------------- opcodes and depth

\* stackDeltas[op] with its ok flag.  The rows are those of the opcodes that
\* the programs of this module are written with; NoOp has no row.
stackDeltas(op) ==
    IF op = STOP \/ op = JUMPDESTOp THEN [ok |-> TRUE, pop |-> 0, push |-> 0]
    ELSE IF op = ADD THEN [ok |-> TRUE, pop |-> 2, push |-> 1]
    ELSE IF op = POP THEN [ok |-> TRUE, pop |-> 1, push |-> 0]
    ELSE IF op = MSIZE THEN [ok |-> TRUE, pop |-> 0, push |-> 1]
    ELSE IF op >= PUSH0 /\ op <= PUSH0 + 32 THEN [ok |-> TRUE, pop |-> 0, push |-> 1]
    ELSE IF op >= DUP1 /\ op < DUP1 + 16 THEN [ok |-> TRUE, pop |-> 1, push |-> 2]
    ELSE IF op >= SWAP1 /\ op < SWAP1 + 16 THEN [ok |-> TRUE, pop |-> 1, push |-> 1]
    ELSE [ok |-> FALSE, pop |-> 0, push |-> 0]

\* vm.OpCode.IsPush()
IsPush(op) == op >= PUSH0 /\ op <= PUSH0 + 32

\* uint64Pusher.ToPush(): the smallest big-endian representation, one zero
\* byte for 0.
RECURSIVE MinBigEndian(_)
MinBigEndian(v) == IF v = 0 THEN <<>> ELSE Append(MinBigEndian(v \div 256), v % 256)

ToPush(v) == IF v = 0 THEN <<0>> ELSE MinBigEndian(v)

\* use.Bytecode() of the nodes that reach the default case of Compile.
BytecodeOf(use) ==
    IF use.kind = "Op" THEN [err |-> "", code |-> <<use.n>>]
    ELSE IF use.kind = "PUSH" THEN PUSHBytes(ToPush(use.n))
    ELSE IF use.kind \in {"bytesPusher", "PUSHSelector"} THEN PUSHBytes(use.tags)
    ELSE [err |-> "call to Bytecode()", code |-> <<>>]

\* The loop of Compile over the bytes of code, from (1-based) index k at
\* stack depth depth: the error, or the depth after the last opcode.
RECURSIVE trackDepthNoSkip(_, _, _)
trackDepthNoSkip(code, k, depth) ==
    IF k > Len(code) THEN [err |-> "", depth |-> depth]
    ELSE LET d == stackDeltas(code[k])
         IN IF ~d.ok THEN [err |-> "invalid opcode as byte returned by Bytecode()", depth |-> depth]
            ELSE IF depth < d.pop
            THEN [err |-> "popping values with insufficient stack depth", depth |-> depth]
            ELSE trackDepthNoSkip(code, k + 1, depth + d.push - d.pop)

RECURSIVE trackDepthUnchecked(_, _, _)
trackDepthUnchecked(code, k, depth) ==
    IF k > Len(code) THEN [err |-> "", depth |-> depth]
    ELSE LET d == stackDeltas(code[k])
         IN IF ~d.ok THEN [err |-> "invalid opcode as byte returned by Bytecode()", depth |-> depth]
            ELSE trackDepthUnchecked(code,
                                     k + 1 + (IF IsPush(code[k]) THEN code[k] - PUSH0 ELSE 0),
                                     depth + d.push - d.pop)

RECURSIVE trackDepth(_, _, _)
trackDepth(code, k, depth) ==
    IF k > Len(code) THEN [err |-> "", depth |-> depth]
    ELSE LET d == stackDeltas(code[k])
         IN IF ~d.ok THEN [err |-> "invalid opcode as byte returned by Bytecode()", depth |-> depth]
            ELSE IF depth < d.pop
            THEN [err |-> "popping values with insufficient stack depth", depth |-> depth]
            ELSE trackDepth(code,
                            k + 1 + (IF IsPush(code[k]) THEN code[k] - PUSH0 ELSE 0),
                            depth + d.push - d.pop)

\* case Inverted of Compile at stack depth depth: the error, or the opcode to
\* use.  types.OpCode is a byte, so last-- and the sum wrap around modulo 256.
invertSameCap(o, depth) ==
    LET base == (o \div 16) * 16
        offset == o - base
        m == IF depth < 16 THEN depth ELSE 16
        last == m
        use == (base + last - offset - 1) % 256
    IN IF base # DUP1 /\ base # SWAP1
       THEN [err |-> "Inverted applied to non-DUP/SWAP opcode", use |-> 0, pos |-> FALSE]
       ELSE IF offset >= last
       THEN [err |-> "Inverted with insufficient stack depth", use |-> 0, pos |-> TRUE]
       ELSE IF (use \div 16) * 16 # base
       THEN [err |-> "panic: BUG: bad inversion", use |-> 0, pos |-> FALSE]
       ELSE [err |-> "", use |-> use, pos |-> FALSE]

invert(o, depth) ==
    LET base == (o \div 16) * 16
        offset == o - base
        m == IF depth < 16 THEN depth ELSE 16
        last == IF base = SWAP1 THEN (m + 255) % 256 ELSE m
        use == (base + last - offset - 1) % 256
    IN IF base # DUP1 /\ base # SWAP1
       THEN [err |-> "Inverted applied to non-DUP/SWAP opcode", use |-> 0, pos |-> FALSE]
       ELSE IF offset >= last
       THEN [err |-> "Inverted with insufficient stack depth", use |-> 0, pos |-> TRUE]
       ELSE IF (use \div 16) * 16 # base
       THEN [err |-> "panic: BUG: bad inversion", use |-> 0, pos |-> FALSE]
       ELSE [err |-> "", use |-> use, pos |-> FALSE]

\* The byte at (0-based) index k of the code, -1 beyond its end.
RECURSIVE ByteAt(_, _)
ByteAt(o, k) ==
    IF Len(o) = 0 \/ k < 0 THEN -1
    ELSE IF k < o[1].n THEN o[1].byte
    ELSE ByteAt(Tail(o), k - o[1].n)

\* ----------------------------------------------------------------- variables

VARIABLES
    c,                          \* the Code that Compile is called on
    flat,                       \* c.flatten(): the nodes Compile ranges over
    pc,                         \* where Compile is: CodeLoop, reserve, expand, bytes, done
    i,                          \* the index (from 1) of the next node of flat
    stackDepth,
    requireStackDepthSetting,
    splices,                    \* spliceConcat.splices
    allTags,                    \* spliceConcat.allTags: tag -> index of its splice, 0 if absent
    out,                        \* the bytes Compile returns
    err,                        \* the error Compile or Bytecode returns, "" for nil
    errAt,                      \* the index that posErr put in err, NoIndex if none
    xform,                      \* t: the stack.Transformation Bytecode() is called on
    queue,                      \* bfs: the queue of nodes
    graph,                      \* bfs: transformationPaths, node -> path
    ret,                        \* the opcodes Transformation.Bytecode() returns
    gor,                        \* the goroutines: where each is, and what its calls returned
    tog,                        \* a sync.Toggle: mu, state and the signal channel
    chans,                      \* the channels of a Debugger that are closed
    machine                     \* the EVM that a Debugger intercepts

compileVars == <<c, flat, i, stackDepth, requireStackDepthSetting, splices, allTags, out,
                 errAt>>
stackVars == <<xform, queue, graph, ret>>
vars == <<c, flat, pc, i, stackDepth, requireStackDepthSetting, splices, allTags, out, err,
          errAt, xform, queue, graph, ret, gor, tog, chans, machine>>
goVars == <<gor, tog, chans, machine>>

\* No goroutine runs, and there is no Toggle and no Debugger, while Compile
\* or Bytecode() runs.
GoIdle ==
    /\ gor = <<>>
    /\ tog = <<>>
    /\ chans = {}
    /\ machine = <<>>

\* --------------------------------------------------------------- the inputs

\* Tag sequences of pushTags nodes.
TagSeqs == UNION {[1..k -> Tags] : k \in 0..MaxTags}

\* The fragments programs are made of.  A JUMPDEST comes with the SetDepth
\* that Compile requires after it.
Frags ==
    {<<Raw(n)>> : n \in RawSizes}
    \cup {<<JUMPDEST(t), SetDepth(0)>> : t \in Tags}
    \cup {<<Label(t)>> : t \in Tags}
    \cup {<<pushTag(t)>> : t \in Tags}
    \cup {<<pushTags(ts)>> : ts \in TagSeqs}
    \cup {<<pushSize(a, b)>> : a \in Tags, b \in Tags}

RECURSIVE Concat(_)
Concat(fs) == IF Len(fs) = 0 THEN <<>> ELSE fs[1] \o Concat(Tail(fs))

\* ------------------------------------------------------------------ Compile

\* newSpliceBuffer(s, op), given that op's tag is not in allTags.
newSpliceBuffer(ss, op) ==
    Append([ss EXCEPT ![Len(ss)].op = op], NewSplice)

\* The test of newSpliceBuffer for a tag that allTags already holds.
duplicateJUMPDEST(all, op) == op.kind = "JUMPDEST" /\ all[op.tags[1]] # 0

duplicate(all, op) == IsTagged(op) /\ all[op.tags[1]] # 0

\* An error that posErr has not formatted carries no index.
NoIndex == -1

\* posErr: the index of the node of flat (from 0) that CodeLoop is at.
posErr == i - 1

\* A return of Compile with the error e, which carries the index at.
Fail(e, at) ==
    /\ err' = e
    /\ errAt' = at
    /\ pc' = "done"
    /\ UNCHANGED <<i, stackDepth, requireStackDepthSetting, splices, allTags>>

\* flat := c.flatten(), the first statement of Compile.
Flatten ==
    /\ pc = "flatten"
    /\ flat' = flatten(c)
    /\ pc' = "CodeLoop"
    /\ UNCHANGED <<c, i, stackDepth, requireStackDepthSetting, splices, allTags, out, err,
                   errAt>>
    /\ UNCHANGED stackVars
    /\ UNCHANGED goVars

\* One iteration of CodeLoop, for the node flat[i].
CompileNode ==
    /\ pc = "CodeLoop"
    /\ i <= Len(flat)
    /\ LET raw == flat[i]
           dup == duplicate(allTags, raw)
           inv == invert(raw.n, stackDepth)
           use == IF raw.kind = "Inverted" THEN Op(inv.use) ELSE raw
           bc == BytecodeOf(use)
           td == trackDepth(bc.code, 1, stackDepth)
       IN IF raw.kind = "SetDepth"
          THEN /\ stackDepth' = raw.n
               /\ requireStackDepthSetting' = FALSE
               /\ i' = i + 1
               /\ UNCHANGED <<pc, splices, allTags, err, errAt>>
          ELSE IF raw.kind = "ExpectDepth"
          THEN IF stackDepth # raw.n
               THEN Fail("stack depth when expecting another", posErr)
               ELSE /\ i' = i + 1
                    /\ UNCHANGED <<pc, stackDepth, requireStackDepthSetting, splices,
                                   allTags, err, errAt>>
          ELSE IF raw.kind = "Inverted" /\ inv.err # ""
          THEN Fail(inv.err, IF inv.pos THEN posErr ELSE NoIndex)
          ELSE IF dup
          THEN Fail("duplicate JUMPDEST/Label", NoIndex)
          ELSE IF requireStackDepthSetting
          THEN Fail("JUMPDEST must be followed by SetDepth", posErr)
          ELSE IF IsLazyLocator(raw)
          THEN /\ splices' = newSpliceBuffer(splices, raw)
               /\ allTags' = IF IsTagged(raw)
                             THEN [allTags EXCEPT ![raw.tags[1]] = Len(splices)]
                             ELSE allTags
               /\ stackDepth' = IF IsTagged(raw) THEN stackDepth ELSE stackDepth + 1
               /\ requireStackDepthSetting' = (raw.kind = "JUMPDEST")
               /\ i' = i + 1
               /\ UNCHANGED <<pc, err, errAt>>
          ELSE IF raw.kind = "Raw"
          THEN /\ splices' = [splices EXCEPT ![Len(splices)].buf = WriteRun(@, 0, raw.n)]
               /\ i' = i + 1
               /\ UNCHANGED <<pc, stackDepth, requireStackDepthSetting, allTags, err, errAt>>
          ELSE IF bc.err # ""
          THEN Fail(bc.err, NoIndex)
          ELSE IF td.err # ""
          THEN Fail(td.err, posErr)
          ELSE /\ splices' = [splices EXCEPT ![Len(splices)].buf = Write(@, bc.code)]
               /\ stackDepth' = td.depth
               /\ i' = i + 1
               /\ UNCHANGED <<pc, requireStackDepthSetting, allTags, err, errAt>>
    /\ UNCHANGED <<c, flat, out>>
    /\ UNCHANGED stackVars
    /\ UNCHANGED goVars

\* The end of CodeLoop.
EndCodeLoop ==
    /\ pc = "CodeLoop"
    /\ i > Len(flat)
    /\ pc' = "reserve"
    /\ UNCHANGED <<c, errAt>>
    /\ UNCHANGED <<flat, i, stackDepth, requireStackDepthSetting, splices, allTags, out, err>>
    /\ UNCHANGED stackVars
    /\ UNCHANGED goVars

\* The body of the loop of reserve() for splice k, with pc = p: the splices
\* with the offset, the tags and the reservation of splice k set, and the new pc.
reserveSplice(ss, known, k, p) ==
    LET sp == ss[k]
        p1 == p + OutLen(sp.buf)
        sp1 == IF IsTagged(sp.op) THEN [sp EXCEPT !.offset = p1]
               ELSE IF IsPushLazy(sp.op)
               THEN [sp EXCEPT !.tags = [j \in 1..Len(sp.op.tags) |-> known[sp.op.tags[j]]]]
               ELSE sp
        ss1 == [ss EXCEPT ![k] = sp1]
        r == extraBytesNeeded(ss1, sp1)
    IN [splices |-> [ss1 EXCEPT ![k].reserved = r], pc |-> p1 + r]

\* spliceConcat.reserve(), from splice k with pc = p (the loop goes on from the
\* value v of the body).
RECURSIVE reserveFrom(_, _, _, _)
reserveFrom(ss, known, k, p) ==
    IF k > Len(ss) THEN [err |-> "", splices |-> ss]
    ELSE IF IsPushLazy(ss[k].op) /\ \E j \in 1..Len(ss[k].op.tags) : known[ss[k].op.tags[j]] = 0
    THEN [err |-> "push of a tag without corresponding JUMPDEST/Label", splices |-> ss]
    ELSE IF ss[k].op.kind = "nil" /\ k # Len(ss)
    THEN [err |-> "BUG: splice with nil op MUST be last", splices |-> ss]
    ELSE CHOOSE res \in {reserveFrom(v.splices, known, k + 1, v.pc) :
                             v \in {reserveSplice(ss, known, k, p)}} : TRUE

Reserve ==
    /\ pc = "reserve"
    /\ LET r == reserveFrom(splices, allTags, 1, 0)
       IN /\ splices' = r.splices
          /\ err' = r.err
          /\ pc' = IF r.err = "" THEN "expand" ELSE "done"
    /\ UNCHANGED <<c, errAt>>
    /\ UNCHANGED <<flat, i, stackDepth, requireStackDepthSetting, allTags, out>>
    /\ UNCHANGED stackVars
    /\ UNCHANGED goVars

\* A pass that moves a tag to the bytes added in the pass, not by them.
expandTaggedAssign(sp, expand) == [sp EXCEPT !.offset = expand]

\* *sp.offset += expand
expandTagged(sp, expand) == [sp EXCEPT !.offset = @ + expand]

\* One pass of expand() over the splices, from splice k with `expand` counted.
RECURSIVE expandFrom(_, _, _)
expandFrom(ss, k, expand) ==
    IF k > Len(ss) THEN [expand |-> expand, splices |-> ss]
    ELSE LET sp == ss[k]
         IN IF IsTagged(sp.op)
            THEN expandFrom([ss EXCEPT ![k] = expandTagged(sp, expand)], k + 1, expand)
            ELSE IF sp.op.kind = "nil" THEN expandFrom(ss, k + 1, expand)
            ELSE LET need == extraBytesNeeded(ss, sp)
                 IN IF need > sp.reserved
                    THEN expandFrom([ss EXCEPT ![k].reserved = need], k + 1,
                                    expand + (need - sp.reserved))
                    ELSE expandFrom(ss, k + 1, expand)

\* One pass of the loop of spliceConcat.expand().
Expand ==
    /\ pc = "expand"
    /\ LET r == expandFrom(splices, 1, 0)
       IN /\ splices' = r.splices
          /\ pc' = IF r.expand = 0 THEN "bytes" ELSE "expand"
    /\ UNCHANGED <<c, errAt>>
    /\ UNCHANGED <<flat, i, stackDepth, requireStackDepthSetting, allTags, out, err>>
    /\ UNCHANGED stackVars
    /\ UNCHANGED goVars

\* A test that lets a difference of 65536 through.
tooLargeOffByOne(diff) == diff > MaxUint16 + 1

\* diff > math.MaxUint16
tooLarge(diff) == diff > MaxUint16

\* The bytes that spliceConcat.bytes() writes for the op of splice sp.
opBytes(ss, sp) ==
    CASE sp.op.kind = "JUMPDEST" -> [err |-> "", code |-> <<JUMPDESTOp>>]
      [] sp.op.kind \in {"Label", "nil"} -> [err |-> "", code |-> <<>>]
      [] sp.op.kind = "pushSize" ->
            LET diff == absDiff(TagOffset(ss, sp, 1), TagOffset(ss, sp, 2))
            IN IF tooLarge(diff)
               THEN [err |-> "pushing size: can't be represented with 2 bytes", code |-> <<>>]
               ELSE PUSHBytes(<<(diff \div 256) % 256, diff % 256>>)
      [] OTHER ->
            LET n == bytesPerTag(ss, sp)
                len == extraBytesNeeded(ss, sp) + leadingZeroes(ss, sp) - 1
                full == [b \in 1..len |->
                            BigEndianLow(TagOffset(ss, sp, ((b - 1) \div n) + 1), n)[((b - 1) % n) + 1]]
            IN PUSHBytes(full)

\* spliceConcat.bytes(), from splice k with `code` written (the loop goes on
\* from the value v of the code with splice k written).
RECURSIVE bytesFrom(_, _, _)
bytesFrom(ss, k, code) ==
    IF k > Len(ss) THEN [err |-> "", code |-> code]
    ELSE LET sp == ss[k]
             buf == sp.buf
         IN CHOOSE res \in {IF bc.err # "" THEN [err |-> bc.err, code |-> <<>>]
                             ELSE bytesFrom(ss, k + 1, code \o buf \o BytesToRuns(bc.code)) :
                                bc \in {opBytes(ss, sp)}} : TRUE

Bytes ==
    /\ pc = "bytes"
    /\ LET r == bytesFrom(splices, 1, <<>>)
       IN /\ out' = r.code
          /\ err' = r.err
    /\ pc' = "done"
    /\ UNCHANGED <<c, errAt>>
    /\ UNCHANGED <<flat, i, stackDepth, requireStackDepthSetting, splices, allTags>>
    /\ UNCHANGED stackVars
    /\ UNCHANGED goVars

\* The state of Compile before CodeLoop, for the flattened code f.
CompileInit(f) ==
    /\ c = f
    /\ flat = f
    /\ pc = "CodeLoop"
    /\ i = 1
    /\ stackDepth = 0
    /\ requireStackDepthSetting = FALSE
    /\ splices = <<NewSplice>>
    /\ allTags = [t \in Tags |-> 0]
    /\ out = <<>>
    /\ err = ""
    /\ errAt = NoIndex

\* No Transformation is in use while Compile runs on layout nodes.
StackIdle ==
    /\ xform = [typ |-> "unknown", depth |-> 0, indices |-> <<>>, override |-> <<>>]
    /\ queue = <<>>
    /\ graph = <<>>
    /\ ret = <<>>

\* The tags that the push nodes of f name, and those its JUMPDESTs and Labels define.
Referenced(f) == UNION {{f[k].tags[j] : j \in 1..Len(f[k].tags)} : k \in {k \in 1..Len(f) : IsPushLazy(f[k])}}
Defined(f) == {f[k].tags[1] : k \in {k \in 1..Len(f) : IsTagged(f[k])}}

\* Programs of up to MaxFrags fragments whose pushes name defined tags.
Init ==
    /\ \E k \in 1..MaxFrags : \E fs \in [1..k -> Frags] :
          /\ Referenced(Concat(fs)) \subseteq Defined(Concat(fs))
          /\ CompileInit(Concat(fs))
    /\ StackIdle
    /\ GoIdle

Next ==
    \/ CompileNode
    \/ EndCodeLoop
    \/ Reserve
    \/ Expand
    \/ Bytes

Spec == Init /\ [][Next]_vars

\* The greatest number of fragments of the programs of InitFair.
MaxFairFrags == 3

InitFair ==
    /\ \E k \in 1..MaxFairFrags : \E fs \in [1..k -> Frags] :
          /\ Referenced(Concat(fs)) \subseteq Defined(Concat(fs))
          /\ CompileInit(Concat(fs))
    /\ StackIdle
    /\ GoIdle

\* Compile never stops before it returns: the code runs in one goroutine with
\* nothing to wait for.
FairSpec == InitFair /\ [][Next]_vars /\ WF_vars(Next)

\* Programs that end with a PUSHSize of two tags they define.
InitSize ==
    /\ \E k \in 1..MaxFrags : \E fs \in [1..k -> Frags] : \E a \in Tags, b \in Tags :
          LET f == Concat(fs) \o <<pushSize(a, b)>>
          IN /\ Referenced(f) \subseteq Defined(f)
             /\ CompileInit(f)
    /\ StackIdle
    /\ GoIdle

SpecSize == InitSize /\ [][Next]_vars

\* Programs of any nodes: the pushes may name tags that nothing defines, a
\* tag may be defined more than once, and a JUMPDEST may be followed by any
\* node or by none.
MaxNodes == 3

TagNodes ==
    {Raw(1), SetDepth(0), ExpectDepth(0), pushTags(<<>>), pushTags(<<"a", "b">>),
     pushSize("a", "b")}
    \cup {JUMPDEST(t) : t \in Tags}
    \cup {Label(t) : t \in Tags}
    \cup {pushTag(t) : t \in Tags}

InitTags ==
    /\ \E k \in 1..MaxNodes : \E f \in [1..k -> TagNodes] : CompileInit(f)
    /\ StackIdle
    /\ GoIdle

SpecTags == InitTags /\ [][Next]_vars

\* Programs that start by setting the stack depth: a SetDepth(d) followed by
\* up to MaxOps nodes, and a SetDepth(d) followed by the Inverted of one DUP
\* or SWAP, for every depth up to MaxInvDepth.
MaxOps == 2
MaxInvDepth == 18

\* params.StackLimit
StackLimit == 1024

Depths == {0, 1, 2, 16, 17, StackLimit, StackLimit + 1}

DepthNodes ==
    {Op(o) : o \in {ADD, POP, MSIZE, NoOp, DUP1 + 1, DUP1 + 15, SWAP1, SWAP1 + 15}}
    \cup {Inverted(o) : o \in {ADD, DUP1, DUP1 + 1, SWAP1, SWAP1 + 1}}
    \cup {PUSH(0), PUSH(1), PUSH(300), SetDepth(0), ExpectDepth(1)}
    \cup {Label("a"), JUMPDEST("a"), pushTag("a"), pushTags(<<"a", "a">>), pushSize("a", "a")}

InitDepth ==
    /\ \/ \E d \in Depths : \E k \in 0..MaxOps : \E f \in [1..k -> DepthNodes] :
             CompileInit(<<SetDepth(d)>> \o f)
       \/ \E d \in 0..MaxInvDepth : \E o \in DUP1..(SWAP1 + 15) :
             CompileInit(<<SetDepth(d), Inverted(o)>>)
    /\ StackIdle
    /\ GoIdle

SpecDepth == InitDepth /\ [][Next]_vars

\* Programs of one push of bytes: PUSHBytes of up to MaxZeroes zero bytes, or
\* of as many as make 32 or 33 bytes, before the bytes of a value; and
\* PUSHSelector of a signature whose hash starts with any four bytes of
\* SelectorBytes.
MaxZeroes == 3

Zeroes(n) == [j \in 1..n |-> 0]

Significant ==
    {<<>>, <<1>>, <<255>>, <<1, 0>>, <<255, 255>>, <<1, 0, 0>>, <<255, 0, 1>>}
    \cup {[j \in 1..k |-> 1] : k \in {4, 31, 32}}

PushInputs ==
    {b \in {Zeroes(z) \o s : z \in (0..MaxZeroes) \cup (29..33), s \in Significant} :
        Len(b) <= 33}

SelectorBytes == {0, 1, 255}

Hashes == [1..4 -> SelectorBytes]

InitPush ==
    /\ \/ \E b \in PushInputs : CompileInit(<<bytesPusher(b)>>)
       \/ \E h \in Hashes : CompileInit(<<PUSHSelector(h)>>)
    /\ StackIdle
    /\ GoIdle

SpecPush == InitPush /\ [][Next]_vars

\* Nested programs, before flatten: a Code of one Bytecoder, which is a leaf,
\* or a Fn or a Code of up to MaxArgs Bytecoders, themselves leaves or a Fn
\* or a Code of up to MaxArgs leaves; or which is a Code of one of these.
MaxArgs == 2

Leaves == {PUSH(1), PUSH(2), Op(MSIZE)}

ArgSeqs(S) == UNION {[1..k -> S] : k \in 0..MaxArgs}

Holders(S) == {Fn(a) : a \in ArgSeqs(S)} \cup {Code(a) : a \in ArgSeqs(S)}

Nested == Leaves \cup Holders(Leaves \cup Holders(Leaves))

InitFlatten ==
    /\ \E t \in Nested : c \in {<<t>>, <<Code(<<t>>)>>}
    /\ flat = <<>>
    /\ pc = "flatten"
    /\ i = 1
    /\ stackDepth = 0
    /\ requireStackDepthSetting = FALSE
    /\ splices = <<NewSplice>>
    /\ allTags = [t \in Tags |-> 0]
    /\ out = <<>>
    /\ err = ""
    /\ errAt = NoIndex
    /\ StackIdle
    /\ GoIdle

NextFlatten ==
    \/ Flatten
    \/ Next

SpecFlatten == InitFlatten /\ [][NextFlatten]_vars

\* ------------------------------------------------------ stack.Transformation

\* The greatest depth and the greatest number of indices of a Transformation
\* drawn by InitStack.
MaxDepth == 3
MaxIndices == 3

\* A node is a string with one hex digit per stack index; it is modelled as the
\* sequence of the indices (nodeFromIndices and toIndices are inverses for
\* indices below 16, which permutationSize and generalSize guarantee).
nodeFromIndices(is) == is
toIndices(n) == n

rootNode(size) == [k \in 1..size |-> k - 1]

Occurrences(n, x) == Cardinality({k \in 1..Len(n) : n[k] = x})

\* n.deltas(o)
deltas(n, o) ==
    [x \in {n[k] : k \in 1..Len(n)} \cup {o[k] : k \in 1..Len(o)} |->
        Occurrences(n, x) - Occurrences(o, x)]

\* An apply whose SWAP<k> exchanges the top with the slot above the k-th, and
\* does nothing when k = 1.
applySwapShallow(n, o) ==
    LET base == o - (o % 16)
    IN CASE o = POP -> [err |-> "", node |-> Tail(n)]
         [] base = SWAP1 ->
              [err |-> "", node |-> [n EXCEPT ![1] = n[o - SWAP1 + 1], ![o - SWAP1 + 1] = n[1]]]
         [] base = DUP1 -> [err |-> "", node |-> <<n[o - DUP1 + 1]>> \o n]
         [] OTHER -> [err |-> "unsupported transformation", node |-> <<>>]

\* n.apply(o): a slice or index out of range is a panic.
apply(n, o) ==
    LET base == o - (o % 16)
    IN CASE o = POP ->
              IF Len(n) = 0 THEN [err |-> "panic", node |-> <<>>]
              ELSE [err |-> "", node |-> Tail(n)]
         [] base = SWAP1 ->
              IF o - SWAP1 + 1 >= Len(n) THEN [err |-> "panic", node |-> <<>>]
              ELSE [err |-> "",
                    node |-> [n EXCEPT ![1] = n[o - SWAP1 + 2], ![o - SWAP1 + 2] = n[1]]]
         [] base = DUP1 ->
              IF o - DUP1 + 1 > Len(n) THEN [err |-> "panic", node |-> <<>>]
              ELSE [err |-> "", node |-> <<n[o - DUP1 + 1]>> \o n]
         [] OTHER -> [err |-> "unsupported transformation", node |-> <<>>]

\* The loop of bfs over allIndices, from its k-th element: the DUP and POP edges.
RECURSIVE deltaEdges(_, _, _, _, _)
deltaEdges(allIndices, k, delta, currIndices, edges) ==
    IF k > Len(allIndices) THEN edges
    ELSE LET idx == allIndices[k]
             d == delta[idx]
             at == {p \in 1..Len(currIndices) : currIndices[p] = idx}
             first == CHOOSE p \in at : \A q \in at : p <= q
         IN CASE d = 0 -> deltaEdges(allIndices, k + 1, delta, currIndices, edges)
              [] d > 0 ->
                   IF at = {} THEN deltaEdges(allIndices, k + 1, delta, currIndices, edges)
                   ELSE deltaEdges(allIndices, k + 1, [delta EXCEPT ![idx] = 0], currIndices,
                                   Append(edges, DUP1 + (first - 1)))
              [] d < 0 /\ currIndices[1] = idx ->
                   deltaEdges(allIndices, k + 1, [delta EXCEPT ![idx] = 0], currIndices,
                              Append(edges, POP))
              [] OTHER -> deltaEdges(allIndices, k + 1, delta, currIndices, edges)

\* SWAP1 .. SWAP(len-1)
swapEdges(curr) == [k \in 1..(Len(curr) - 1) |-> SWAP1 + (k - 1)]

\* The edges bfs follows from curr.
edgesOf(want, curr) ==
    deltaEdges(toIndices(want) \o toIndices(curr), 1, deltas(want, curr), toIndices(curr), <<>>)
        \o swapEdges(curr)

\* The loop of bfs over the edges of curr, from the k-th, with graph g and queue q.
RECURSIVE followEdges(_, _, _, _, _, _)
followEdges(edges, k, curr, want, g, q) ==
    IF k > Len(edges) THEN [returned |-> FALSE, err |-> "", path |-> <<>>, graph |-> g, queue |-> q]
    ELSE LET next == apply(curr, edges[k])
             nextPath == Append(g[curr], edges[k])
         IN IF next.err # ""
            THEN [returned |-> TRUE, err |-> next.err, path |-> <<>>, graph |-> g, queue |-> q]
            ELSE IF next.node \in DOMAIN g
            THEN followEdges(edges, k + 1, curr, want, g, q)
            ELSE IF next.node = want
            THEN [returned |-> TRUE, err |-> "", path |-> nextPath, graph |-> g, queue |-> q]
            ELSE followEdges(edges, k + 1, curr, want,
                             g @@ (next.node :> nextPath), Append(q, next.node))

\* t.permutationSize(): it sets t.depth.
permutationSize(tr) ==
    LET n == Len(tr.indices)
        set == {tr.indices[k] : k \in 1..n}
    IN IF n > 16 THEN [err |-> "can only permute up to 16 stack items", size |-> 0, depth |-> tr.depth]
       ELSE IF \E j \in 1..n, k \in 1..n : j < k /\ tr.indices[j] = tr.indices[k]
       THEN [err |-> "duplicate index in permutation", size |-> 0, depth |-> n]
       ELSE IF \E k \in 0..(n - 1) : k \notin set
       THEN [err |-> "non-contiguous indices in permutation", size |-> 0, depth |-> n]
       ELSE [err |-> "", size |-> n, depth |-> n]

\* t.generalSize()
generalSize(tr) ==
    IF tr.depth > 16 THEN [err |-> "transformation depth > 16", size |-> 0, depth |-> tr.depth]
    ELSE IF \E k \in 1..Len(tr.indices) : tr.indices[k] >= tr.depth
    THEN [err |-> "stack index beyond transformation depth", size |-> 0, depth |-> tr.depth]
    ELSE [err |-> "", size |-> tr.depth, depth |-> tr.depth]

\* A search that takes the node enqueued last.
dequeueLast(q) == [curr |-> q[Len(q)], rest |-> SubSeq(q, 1, Len(q) - 1)]

\* queue[0] and queue[1:]
dequeue(q) == [curr |-> Head(q), rest |-> Tail(q)]

\* The loop of overriden() over t.override, from its k-th opcode, at node n.
RECURSIVE applyAll(_, _, _)
applyAll(n, ops, k) ==
    IF k > Len(ops) THEN [err |-> "", node |-> n]
    ELSE LET a == apply(n, ops[k])
         IN IF a.err # "" THEN a ELSE applyAll(a.node, ops, k + 1)

\* t.overriden()
overriden(tr) ==
    LET a == applyAll(rootNode(tr.depth), tr.override, 1)
    IN IF a.err # "" THEN [err |-> a.err, ret |-> <<>>]
       ELSE IF a.node # nodeFromIndices(tr.indices)
       THEN [err |-> "invalid WithOps() config", ret |-> <<>>]
       ELSE [err |-> "", ret |-> tr.override]

\* t.Bytecode() up to the loop of bfs.
Bytecode ==
    /\ pc = "Bytecode"
    /\ LET sz == CASE xform.typ = "permutation" -> permutationSize(xform)
                   [] xform.typ = "general" -> generalSize(xform)
                   [] OTHER -> [err |-> "invalid typ", size |-> 0, depth |-> xform.depth]
           root == rootNode(sz.size)
           want == nodeFromIndices(xform.indices)
       IN /\ xform' = [xform EXCEPT !.depth = sz.depth]
          /\ IF sz.err # ""
             THEN /\ err' = sz.err
                  /\ pc' = "done"
                  /\ UNCHANGED <<queue, graph, ret>>
             ELSE IF Len(xform.override) # 0
             THEN LET o == overriden([xform EXCEPT !.depth = sz.depth])
                  IN /\ err' = o.err
                     /\ ret' = o.ret
                     /\ pc' = "done"
                     /\ UNCHANGED <<queue, graph>>
             ELSE IF sz.size = 0 \/ sz.size > 16
             THEN /\ err' = "invalid size"
                  /\ pc' = "done"
                  /\ UNCHANGED <<queue, graph, ret>>
             ELSE IF want = root
             THEN /\ pc' = "done"
                  /\ UNCHANGED <<queue, graph, ret, err>>
             ELSE /\ graph' = (root :> <<>>)
                  /\ queue' = <<root>>
                  /\ pc' = "bfs"
                  /\ UNCHANGED <<ret, err>>
    /\ UNCHANGED compileVars
    /\ UNCHANGED goVars

\* One iteration of the loop of bfs over the queue.
bfsLoop ==
    /\ pc = "bfs"
    /\ IF Len(queue) = 0
       THEN /\ err' = "stack transformation not reached by BFS"
            /\ pc' = "done"
            /\ UNCHANGED <<queue, graph, ret>>
       ELSE LET want == nodeFromIndices(xform.indices)
                d == dequeue(queue)
                r == followEdges(edgesOf(want, d.curr), 1, d.curr, want, graph, d.rest)
            IN IF r.returned
               THEN /\ ret' = r.path
                    /\ err' = r.err
                    /\ pc' = "done"
                    /\ UNCHANGED <<queue, graph>>
               ELSE /\ graph' = r.graph
                    /\ queue' = r.queue
                    /\ UNCHANGED <<pc, ret, err>>
    /\ UNCHANGED compileVars
    /\ UNCHANGED goVars
    /\ UNCHANGED xform

\* No Compile is in progress while a Transformation is worked on.
CompileIdle ==
    /\ c = <<>>
    /\ errAt = NoIndex
    /\ flat = <<>>
    /\ i = 1
    /\ stackDepth = 0
    /\ requireStackDepthSetting = FALSE
    /\ splices = <<>>
    /\ allTags = [tg \in Tags |-> 0]
    /\ out = <<>>

IndexSeqs == UNION {[1..k -> 0..(MaxDepth - 1)] : k \in 0..MaxIndices}

\* Permute(indices...) and Transform(depth)(indices...), before Bytecode().
InitStack ==
    /\ \E is \in IndexSeqs :
          \/ xform = [typ |-> "permutation", depth |-> 0, indices |-> is, override |-> <<>>]
          \/ \E d \in 0..MaxDepth :
                xform = [typ |-> "general", depth |-> d, indices |-> is, override |-> <<>>]
    /\ pc = "Bytecode"
    /\ queue = <<>>
    /\ graph = <<>>
    /\ ret = <<>>
    /\ err = ""
    /\ CompileIdle
    /\ GoIdle

NextStack ==
    \/ Bytecode
    \/ bfsLoop

SpecStack == InitStack /\ [][NextStack]_vars

\* Transform(depth)(indices...) of one index repeated up to MaxRepeat times,
\* over a depth of 1 or 2, before Bytecode().
MaxRepeat == 20

InitRepeat ==
    /\ \E d \in 1..2 : \E v \in 0..(d - 1) : \E k \in 1..MaxRepeat :
          xform = [typ |-> "general", depth |-> d, indices |-> [j \in 1..k |-> v],
                   override |-> <<>>]
    /\ pc = "Bytecode"
    /\ queue = <<>>
    /\ graph = <<>>
    /\ ret = <<>>
    /\ err = ""
    /\ CompileIdle
    /\ GoIdle

SpecRepeat == InitRepeat /\ [][NextStack]_vars

\* The opcodes and the greatest number of them that WithOps is given.
MaxOverride == 2
OverrideOps == {POP, DUP1, DUP1 + 1, SWAP1, SWAP1 + 1, ADD}
OverrideSeqs == UNION {[1..k -> OverrideOps] : k \in 0..MaxOverride}

\* Permute(indices...).WithOps(ops...) and Transform(depth)(indices...).WithOps(ops...),
\* before Bytecode().
InitOverride ==
    /\ \E is \in IndexSeqs : \E ops \in OverrideSeqs :
          \/ xform = [typ |-> "permutation", depth |-> 0, indices |-> is, override |-> ops]
          \/ \E d \in 0..MaxDepth :
                xform = [typ |-> "general", depth |-> d, indices |-> is, override |-> ops]
    /\ pc = "Bytecode"
    /\ queue = <<>>
    /\ graph = <<>>
    /\ ret = <<>>
    /\ err = ""
    /\ CompileIdle
    /\ GoIdle

SpecOverride == InitOverride /\ [][NextStack]_vars

\* -------------------------------------------------------------- sync.Toggle

\* Compile and Transformation.Bytecode() are not running.
progVars == <<compileVars, stackVars, pc, err>>

ProgIdle ==
    /\ CompileIdle
    /\ StackIdle
    /\ pc = "idle"
    /\ err = ""

\* new(Toggle): mu, state, and of signal (a channel with a buffer of one item,
\* taken as made) the number of items it holds and whether it is closed.
NewToggle == [locked |-> FALSE, state |-> FALSE, buf |-> 0, closed |-> FALSE]

\* A goroutine at pc: call is the method it called last, ret where the call it
\* is in returns to, arg the argument of that call, res what its last Wait
\* returned, late whether the Toggle was closed when that Wait was called, n
\* the calls it has made.
Goroutine(at) ==
    [pc |-> at, call |-> "", ret |-> "", arg |-> FALSE, res |-> "", late |-> FALSE,
     n |-> 0]

\* A panic ends the program.
NoPanic == \A g \in DOMAIN gor : gor[g].pc # "panic"

\* What a step inside a method of the Toggle needs and leaves alone.
ToggleFrame ==
    /\ NoPanic
    /\ UNCHANGED <<chans, machine>>
    /\ UNCHANGED progVars

Panic(g, why) == gor' = [gor EXCEPT ![g].pc = "panic", ![g].res = why]

Return(g) == gor' = [gor EXCEPT ![g].pc = gor[g].ret]

ReturnErr(g, e) == gor' = [gor EXCEPT ![g].pc = gor[g].ret, ![g].res = e]

\* Wait: ch := t.sigChan()
WaitSigChan(g) ==
    /\ ToggleFrame
    /\ gor[g].pc = "Wait"
    /\ ~tog.locked
    /\ gor' = [gor EXCEPT ![g].pc = "Wait:select"]
    /\ UNCHANGED tog

\* Wait: case x, ok := <-ch, with the return of ErrToggleClosed if !ok.  A
\* closed channel still delivers the item in its buffer, with ok true.
WaitSelect(g) ==
    /\ ToggleFrame
    /\ gor[g].pc = "Wait:select"
    /\ IF tog.buf = 1
       THEN /\ tog' = [tog EXCEPT !.buf = 0]
            /\ gor' = [gor EXCEPT ![g].pc = "Wait:send"]
       ELSE /\ tog.closed
            /\ ReturnErr(g, "ErrToggleClosed")
            /\ UNCHANGED tog

\* Wait: ch <- x and return nil
WaitSend(g) ==
    /\ ToggleFrame
    /\ gor[g].pc = "Wait:send"
    /\ IF tog.closed
       THEN Panic(g, "send on closed channel") /\ UNCHANGED tog
       ELSE /\ tog.buf = 0
            /\ tog' = [tog EXCEPT !.buf = 1]
            /\ ReturnErr(g, "nil")

\* Set(state): t.mu.Lock(), the return if state == t.state, t.state = state
SetLock(g) ==
    /\ ToggleFrame
    /\ gor[g].pc = "Set"
    /\ ~tog.locked
    /\ IF gor[g].arg = tog.state
       THEN Return(g) /\ UNCHANGED tog
       ELSE /\ tog' = [tog EXCEPT !.locked = TRUE, !.state = gor[g].arg]
            /\ gor' = [gor EXCEPT ![g].pc = "Set:chan"]

\* Set(state): ch <- struct{}{} or <-ch, and the deferred t.mu.Unlock()
SetChan(g) ==
    /\ ToggleFrame
    /\ gor[g].pc = "Set:chan"
    /\ IF gor[g].arg
       THEN IF tog.closed
            THEN /\ Panic(g, "send on closed channel")
                 /\ tog' = [tog EXCEPT !.locked = FALSE]
            ELSE /\ tog.buf = 0
                 /\ tog' = [tog EXCEPT !.buf = 1, !.locked = FALSE]
                 /\ Return(g)
       ELSE /\ tog.buf = 1 \/ tog.closed
            /\ tog' = [tog EXCEPT !.buf = 0, !.locked = FALSE]
            /\ Return(g)

\* Close(): close(t.sigChan())
ToggleClose(g) ==
    /\ ToggleFrame
    /\ gor[g].pc = "Close"
    /\ ~tog.locked
    /\ IF tog.closed
       THEN Panic(g, "close of closed channel") /\ UNCHANGED tog
       ELSE /\ tog' = [tog EXCEPT !.closed = TRUE]
            /\ Return(g)

\* A step of goroutine g inside a method of the Toggle.
ToggleStep(g) ==
    \/ WaitSigChan(g)
    \/ WaitSelect(g)
    \/ WaitSend(g)
    \/ SetLock(g)
    \/ SetChan(g)
    \/ ToggleClose(g)

\* A Toggle with goroutines that call Wait() up to MaxWaits times each, at any
\* time, and one that calls Set() up to MaxSets times and then Close().
MaxWaits == 2
MaxSets == 2

Waiters == {"w1", "w2"}

InitToggle ==
    /\ gor = [g \in Waiters \cup {"owner"} |-> Goroutine("idle")]
    /\ tog = NewToggle
    /\ chans = {}
    /\ machine = <<>>
    /\ ProgIdle

\* tog.Wait(ctx) is called by goroutine g; ctx is never cancelled.
CallWait(g) ==
    /\ ToggleFrame
    /\ g \in Waiters
    /\ gor[g].pc = "idle"
    /\ gor[g].n < MaxWaits
    /\ gor' = [gor EXCEPT ![g].pc = "Wait", ![g].ret = "idle", ![g].res = "",
                          ![g].late = tog.closed, ![g].n = @ + 1]
    /\ UNCHANGED tog

\* tog.Set(v)
CallSet(v) ==
    /\ ToggleFrame
    /\ gor["owner"].pc = "idle"
    /\ gor["owner"].n < MaxSets
    /\ gor' = [gor EXCEPT !["owner"].pc = "Set", !["owner"].ret = "idle",
                          !["owner"].arg = v, !["owner"].n = @ + 1]
    /\ UNCHANGED tog

\* tog.Close(), after which the owner calls nothing.
CallClose ==
    /\ ToggleFrame
    /\ gor["owner"].pc = "idle"
    /\ gor' = [gor EXCEPT !["owner"].pc = "Close", !["owner"].ret = "closed"]
    /\ UNCHANGED tog

NextToggle ==
    \/ \E g \in DOMAIN gor : ToggleStep(g)
    \/ \E g \in Waiters : CallWait(g)
    \/ \E v \in BOOLEAN : CallSet(v)
    \/ CallClose

SpecToggle == InitToggle /\ [][NextToggle]_vars

\* ------------------------------------------------------- evmdebug.Debugger

\* The greatest number of opcodes before the one that ends the execution, and
\* of calls of the methods of the Debugger.
MaxOpcodes == 2
MaxCalls == 3

\* The channels of the Debugger are unbuffered; chans holds the closed ones.
Closed(ch) == ch \in chans

DebugFrame ==
    /\ NoPanic
    /\ UNCHANGED progVars

\* g calls the method fn of d.blockingEVM with the argument v, and goes on at
\* back when it returns.
CallToggle(g, fn, v, back) ==
    [gor EXCEPT ![g].pc = fn, ![g].arg = v, ![g].ret = back, ![g].res = "",
                ![g].late = tog.closed]

\* The execution that the EVM goroutine runs: n opcodes, each announced by
\* CaptureState before it is executed, then the opcode that ends it, announced
\* by CaptureState (STOP, RETURN) or, if fault, by CaptureFault.  k is the
\* opcode that is announced next, executed the number of opcodes executed,
\* half whether one is being executed, last the opcode in d.last.
NewMachine(n, fault) ==
    [n |-> n, fault |-> fault, k |-> 1, executed |-> 0, half |-> FALSE, last |-> 0]

Terminal == machine.k = machine.n + 1

InitDebug ==
    /\ gor = [g \in {"caller", "evm"} |->
                 IF g = "caller" THEN Goroutine("idle") ELSE Goroutine("hook")]
    /\ tog = NewToggle
    /\ chans = {}
    /\ \E n \in 0..MaxOpcodes : \E fault \in BOOLEAN : machine = NewMachine(n, fault)
    /\ ProgIdle

\* Debugger.Step() is called; never after Done() has returned true.
CallStep ==
    /\ DebugFrame
    /\ gor["caller"].pc = "idle"
    /\ gor["caller"].n < MaxCalls
    /\ ~Closed("done")
    /\ gor' = [gor EXCEPT !["caller"].pc = "Step:send", !["caller"].call = "Step",
                          !["caller"].n = @ + 1]
    /\ UNCHANGED <<tog, chans, machine>>

\* Debugger.FastForward() is called.
CallFastForward ==
    /\ DebugFrame
    /\ gor["caller"].pc = "idle"
    /\ gor["caller"].n < MaxCalls
    /\ gor' = [gor EXCEPT !["caller"].pc = "FastForward",
                          !["caller"].call = "FastForward", !["caller"].n = @ + 1]
    /\ UNCHANGED <<tog, chans, machine>>

\* Debugger.Wait() is called: d.d.blockingEVM.Wait(context.Background()).
CallDebuggerWait ==
    /\ DebugFrame
    /\ gor["caller"].pc = "idle"
    /\ gor["caller"].n < MaxCalls
    /\ gor' = [CallToggle("caller", "Wait", FALSE, "idle") EXCEPT
                   !["caller"].call = "Wait", !["caller"].n = @ + 1]
    /\ UNCHANGED <<tog, chans, machine>>

\* Step: d.step <- step{}, received by the select of Capture{State,Fault}.
StepSend ==
    /\ DebugFrame
    /\ gor["caller"].pc = "Step:send"
    /\ IF Closed("step")
       THEN Panic("caller", "send on closed channel step")
       ELSE /\ gor["evm"].pc = "select"
            /\ gor' = [gor EXCEPT !["caller"].pc = "Step:recv", !["evm"].pc = "last"]
    /\ UNCHANGED <<tog, chans, machine>>

\* The select of Capture{State,Fault} when step or fastForward is closed.
SelectClosed ==
    /\ DebugFrame
    /\ gor["evm"].pc = "select"
    /\ Closed("step") \/ Closed("fastForward")
    /\ gor' = [gor EXCEPT !["evm"].pc = "last"]
    /\ UNCHANGED <<tog, chans, machine>>

\* CaptureState: d.stepped <- stepped{}, received by Step or by the loop of
\* FastForward.
SendStepped ==
    /\ DebugFrame
    /\ gor["evm"].pc = "sendStepped"
    /\ IF Closed("stepped")
       THEN Panic("evm", "send on closed channel stepped")
       ELSE /\ gor["caller"].pc \in {"Step:recv", "FastForward:loop"}
            /\ gor' = [gor EXCEPT
                          !["evm"].pc = "exec",
                          !["caller"].pc = IF @ = "Step:recv" THEN "Step:select" ELSE @]
    /\ UNCHANGED <<tog, chans, machine>>

\* Step: <-d.stepped when stepped is closed.
StepRecvClosed ==
    /\ DebugFrame
    /\ gor["caller"].pc = "Step:recv"
    /\ Closed("stepped")
    /\ gor' = [gor EXCEPT !["caller"].pc = "Step:select"]
    /\ UNCHANGED <<tog, chans, machine>>

\* Step: the select on d.done, with d.close(true) or d.waitForEVMBlocked().
StepSelect ==
    /\ DebugFrame
    /\ gor["caller"].pc = "Step:select"
    /\ gor' = IF Closed("done")
              THEN [gor EXCEPT !["caller"].pc = "close:step", !["caller"].arg = TRUE]
              ELSE CallToggle("caller", "Wait", FALSE, "idle")
    /\ UNCHANGED <<tog, chans, machine>>

\* close: close(d.step)
CloseStep ==
    /\ DebugFrame
    /\ gor["caller"].pc = "close:step"
    /\ IF Closed("step")
       THEN Panic("caller", "close of closed channel step") /\ UNCHANGED chans
       ELSE /\ chans' = chans \cup {"step"}
            /\ gor' = IF gor["caller"].arg
                      THEN [gor EXCEPT !["caller"].pc = "close:fastForward"]
                      ELSE CallToggle("caller", "Close", FALSE, "idle")
    /\ UNCHANGED <<tog, machine>>

\* close: close(d.fastForward) if closeFastForward, then d.d.blockingEVM.Close()
CloseFastForward ==
    /\ DebugFrame
    /\ gor["caller"].pc = "close:fastForward"
    /\ IF Closed("fastForward")
       THEN Panic("caller", "close of closed channel fastForward") /\ UNCHANGED chans
       ELSE /\ chans' = chans \cup {"fastForward"}
            /\ gor' = CallToggle("caller", "Close", TRUE, "idle")
    /\ UNCHANGED <<tog, machine>>

\* FastForward without its first select.
NeverFastForwarded == FALSE

\* FastForward: case <-d.d.fastForward of the first select.
AlreadyFastForwarded == Closed("fastForward")

\* FastForward: the return if fastForward is already closed, close(d.fastForward)
FastForward ==
    /\ DebugFrame
    /\ gor["caller"].pc = "FastForward"
    /\ IF AlreadyFastForwarded
       THEN gor' = [gor EXCEPT !["caller"].pc = "idle"] /\ UNCHANGED chans
       ELSE IF Closed("fastForward")
       THEN Panic("caller", "close of closed channel fastForward") /\ UNCHANGED chans
       ELSE /\ chans' = chans \cup {"fastForward"}
            /\ gor' = [gor EXCEPT !["caller"].pc = "FastForward:loop"]
    /\ UNCHANGED <<tog, machine>>

\* FastForward: case <-d.done of the loop, with d.close(false).  A receive
\* from the closed stepped leaves the loop where it is.
FastForwardDone ==
    /\ DebugFrame
    /\ gor["caller"].pc = "FastForward:loop"
    /\ Closed("done")
    /\ gor' = [gor EXCEPT !["caller"].pc = "close:step", !["caller"].arg = FALSE]
    /\ UNCHANGED <<tog, chans, machine>>

\* Capture{State,Fault}: d.blockingEVM.Set(true)
Hook ==
    /\ DebugFrame
    /\ gor["evm"].pc = "hook"
    /\ gor' = CallToggle("evm", "Set", TRUE, "select")
    /\ UNCHANGED <<tog, chans, machine>>

\* CaptureState of an opcode other than STOP and RETURN, once d.last is
\* written, without d.blockingEVM.Set(false).
CaptureStateNoToggle == [gor EXCEPT !["evm"].pc = "sendStepped"]

\* CaptureState of an opcode other than STOP and RETURN, once d.last is
\* written: d.blockingEVM.Set(false), then the send on d.stepped.
CaptureStateDefault == CallToggle("evm", "Set", FALSE, "sendStepped")

\* Capture{State,Fault}: d.last.PC = pc and the other fields of d.last
SetLast ==
    /\ DebugFrame
    /\ gor["evm"].pc = "last"
    /\ machine' = [machine EXCEPT !.last = machine.k]
    /\ gor' = IF Terminal
              THEN [gor EXCEPT !["evm"].pc = "close:done"]
              ELSE CaptureStateDefault
    /\ UNCHANGED <<tog, chans>>

\* Capture{State,Fault}: close(d.done)
CloseDone ==
    /\ DebugFrame
    /\ gor["evm"].pc = "close:done"
    /\ IF Closed("done")
       THEN Panic("evm", "close of closed channel done") /\ UNCHANGED chans
       ELSE /\ chans' = chans \cup {"done"}
            /\ gor' = [gor EXCEPT !["evm"].pc = "close:stepped"]
    /\ UNCHANGED <<tog, machine>>

\* Capture{State,Fault}: close(d.stepped); CaptureFault then runs its deferred
\* d.blockingEVM.Set(false).
CloseStepped ==
    /\ DebugFrame
    /\ gor["evm"].pc = "close:stepped"
    /\ IF Closed("stepped")
       THEN Panic("evm", "close of closed channel stepped") /\ UNCHANGED chans
       ELSE /\ chans' = chans \cup {"stepped"}
            /\ gor' = IF machine.fault
                      THEN CallToggle("evm", "Set", FALSE, "end")
                      ELSE [gor EXCEPT !["evm"].pc = "end"]
    /\ UNCHANGED <<tog, machine>>

\* The interpreter starts to execute the opcode that CaptureState announced.
Execute ==
    /\ DebugFrame
    /\ gor["evm"].pc = "exec"
    /\ machine' = [machine EXCEPT !.half = TRUE]
    /\ gor' = [gor EXCEPT !["evm"].pc = "exec:end"]
    /\ UNCHANGED <<tog, chans>>

\* The interpreter ends the execution of the opcode and calls the next hook.
ExecuteEnd ==
    /\ DebugFrame
    /\ gor["evm"].pc = "exec:end"
    /\ machine' = [machine EXCEPT !.half = FALSE, !.executed = @ + 1, !.k = @ + 1]
    /\ gor' = [gor EXCEPT !["evm"].pc = "hook"]
    /\ UNCHANGED <<tog, chans>>

NextDebug ==
    \/ CallStep
    \/ CallFastForward
    \/ CallDebuggerWait
    \/ StepSend
    \/ SelectClosed
    \/ SendStepped
    \/ StepRecvClosed
    \/ StepSelect
    \/ CloseStep
    \/ CloseFastForward
    \/ FastForward
    \/ FastForwardDone
    \/ Hook
    \/ SetLast
    \/ CloseDone
    \/ CloseStepped
    \/ Execute
    \/ ExecuteEnd
    \/ \E g \in DOMAIN gor : ToggleStep(g)

SpecDebug == InitDebug /\ [][NextDebug]_vars

\* ------------------------------------------------- reading the compiled code

\* Compile has returned code and a nil error.
Compiled == pc = "done" /\ err = ""

PUSH1 == 96
PUSH2 == 97
PUSH32 == 127

\* The n bytes of the code from index k.
OutBytes(o, k, n) == [j \in 1..n |-> ByteAt(o, k + j - 1)]

\* The number of bytes the code holds for the op of splice k, whose first byte
\* is at index p: a JUMPDEST byte, nothing for a Label, and a PUSH<n> with the
\* n bytes it carries for the three pushes.
OpLenAt(k, p) ==
    CASE splices[k].op.kind = "JUMPDEST" -> 1
      [] IsPushLazy(splices[k].op) -> 1 + (ByteAt(out, p) - PUSH0)
      [] OTHER -> 0

\* The index in the code of the first byte of the op of splice k (for a Label,
\* of the byte after it).
RECURSIVE OpStart(_)
OpStart(k) ==
    IF k = 1 THEN OutLen(splices[1].buf)
    ELSE OpStart(k - 1) + OpLenAt(k - 1, OpStart(k - 1)) + OutLen(splices[k].buf)

\* The PUSH opcode the code holds for push splice k, and the bytes it carries.
PushOp(k) == ByteAt(out, OpStart(k))
PushImm(k) == OutBytes(out, OpStart(k) + 1, PushOp(k) - PUSH0)
\* The value it pushes.
Pushed(k) == BytesValue(PushImm(k))

\* The least number of bytes that hold v.
RECURSIVE MinBytes(_)
MinBytes(v) == IF v = 0 THEN 0 ELSE 1 + MinBytes(v \div 256)

SpliceIdx == 1..Len(splices)
OfKind(kind) == {k \in SpliceIdx : splices[k].op.kind = kind}
\* The offset layout resolved for the j-th tag of push splice k.
Off(k, j) == TagOffset(splices, splices[k], j)

\* ---------------------------------------------------------------- the claims

\* C1: after a successful Compile, the offset that layout resolves for every
\* JUMPDEST is the index of that JUMPDEST's byte in the code: code[off(L)] = 0x5B.
C1_RoundTripOffsets ==
    Compiled => \A k \in OfKind("JUMPDEST") : ByteAt(out, splices[k].offset) = JUMPDESTOp

\* C2: after a successful Compile, every push splice has reserved exactly the
\* bytes the code holds for it (the PUSH and what it carries), and the length of
\* the code is the sum over the splices of buffer length plus reserved bytes
\* (1 for a JUMPDEST, 0 for a Label).
RECURSIVE SumReserved(_)
SumReserved(k) ==
    IF k = 0 THEN 0
    ELSE SumReserved(k - 1) + OutLen(splices[k].buf)
         + (CASE splices[k].op.kind = "JUMPDEST" -> 1
              [] IsPushLazy(splices[k].op) -> splices[k].reserved
              [] OTHER -> 0)

C2_ReservedIsWritten ==
    Compiled =>
        /\ \A k \in SpliceIdx :
              IsPushLazy(splices[k].op) => splices[k].reserved = OpLenAt(k, OpStart(k))
        /\ OutLen(out) = SumReserved(Len(splices))

\* C3: after a successful Compile, every PushLabel is a PUSH whose bytes, read
\* as a big-endian unsigned integer, are the final offset of its tag (PUSH0 alone
\* for offset 0), however large that offset is.
C3_PushLabelValue ==
    Compiled =>
        \A k \in OfKind("pushTag") :
            /\ PushOp(k) \in PUSH0..PUSH32
            /\ Pushed(k) = Off(k, 1)
            /\ Off(k, 1) = 0 => PushOp(k) = PUSH0

\* C4: after a successful Compile, a PushLabels of k >= 1 tags pushes the
\* concatenation of the k final offsets, each written big-endian in w bytes
\* (w = 1 if all k offsets are below 256, w = 2 otherwise), with the leading
\* zero bytes of the whole concatenation stripped.
\* The first j entries of push splice k, each big-endian in w bytes.
RECURSIVE ConcatEntries(_, _, _)
ConcatEntries(k, j, w) ==
    IF j = 0 THEN <<>> ELSE ConcatEntries(k, j - 1, w) \o BigEndianLow(Off(k, j), w)

StripZeroes(bs) == SubSeq(bs, LeadingZeroBytes(bs) + 1, Len(bs))

EntryWidth(k) == IF \A j \in 1..Len(splices[k].tags) : Off(k, j) < 256 THEN 1 ELSE 2

C4_PushLabelsWord ==
    Compiled =>
        \A k \in OfKind("pushTags") :
            Len(splices[k].tags) >= 1 =>
                /\ \A j \in 1..Len(splices[k].tags) : Off(k, j) < Pow256(EntryWidth(k))
                /\ PushImm(k) = StripZeroes(ConcatEntries(k, Len(splices[k].tags), EntryWidth(k)))

\* C5: after a successful Compile, a PushLabel of a tag whose final offset is in
\* 1..255 is a PUSH1 with 1 byte and one of a tag at 256 or more a PUSH2 with 2
\* bytes, and no PushLabel or PushSize carries more bytes than the least number
\* that holds its resolved value.
C5_PushLabelWidth ==
    Compiled =>
        /\ \A k \in OfKind("pushTag") :
              /\ Off(k, 1) \in 1..255 => PushOp(k) = PUSH1
              /\ Off(k, 1) >= 256 => PushOp(k) = PUSH2
              /\ PushOp(k) - PUSH0 <= MinBytes(Off(k, 1))
        /\ \A k \in OfKind("pushSize") :
              PushOp(k) - PUSH0 <= MinBytes(absDiff(Off(k, 1), Off(k, 2)))

\* C6: the expansion loop terminates for every program: in a pass of expand no
\* reservation and no tag offset decreases, the reservation of a push of k names
\* is never more than 1 + 2k bytes, and Compile always returns.
C6_NoShrink ==
    pc = "expand" =>
        /\ Len(splices') = Len(splices)
        /\ \A k \in SpliceIdx :
              /\ splices'[k].reserved >= splices[k].reserved
              /\ splices'[k].offset >= splices[k].offset

C6_Bounded ==
    \A k \in SpliceIdx :
        IsPushLazy(splices[k].op) => splices[k].reserved <= 1 + 2 * Len(splices[k].op.tags)

C6_ExpansionTerminates ==
    /\ [][C6_NoShrink]_vars
    /\ [](C6_Bounded)
    /\ <>(pc = "done")

\* A push of a tag that follows it has grown to the PUSH2 of an offset of 256 or
\* more, which Compile has written.
C6_Witness ==
    /\ Compiled
    /\ \E k \in OfKind("pushTag") :
          /\ splices[k].tags[1] > k
          /\ splices[k].reserved = 3
          /\ PushOp(k) = PUSH2

\* C9: after a successful Compile, a PUSHSize(a, b) pushes, in the least number
\* of bytes, the number of bytes of the code between the places of a and b, which
\* is |off(a) - off(b)|; PUSHSize(b, a) pushes the same, and the push is the one
\* byte PUSH0 when the two offsets are equal.
C9_PushSizeValue ==
    Compiled =>
        \A k \in OfKind("pushSize") :
            /\ Pushed(k) = absDiff(Off(k, 1), Off(k, 2))
            /\ Pushed(k) = absDiff(OpStart(splices[k].tags[1]), OpStart(splices[k].tags[2]))
            /\ PushOp(k) - PUSH0 = MinBytes(Pushed(k))
            /\ Off(k, 1) = Off(k, 2) => PushOp(k) = PUSH0
            /\ \A m \in OfKind("pushSize") :
                  (splices[m].tags = <<splices[k].tags[2], splices[k].tags[1]>>)
                      => Pushed(m) = Pushed(k)

\* bytes() has run: Compile has returned with no error of CodeLoop or reserve().
BytesRan ==
    /\ pc = "done"
    /\ err \in {"", "pushing size: can't be represented with 2 bytes",
                "len(ToPush()) must be in [1,32]"}

SizeDiff(k) == absDiff(Off(k, 1), Off(k, 2))

\* C10: Compile returns an error whenever the final offsets of the two tags of
\* some PUSHSize differ by 65536 or more; a PUSHSize whose offsets differ by
\* 256..65535 is no error and is written as a PUSH2 of the difference.
C10_PushSizeRange ==
    BytesRan =>
        /\ (\E k \in OfKind("pushSize") : SizeDiff(k) >= 65536) => err # ""
        /\ (\A k \in OfKind("pushSize") : SizeDiff(k) <= 65535)
              => err # "pushing size: can't be represented with 2 bytes"
        /\ Compiled =>
              \A k \in OfKind("pushSize") :
                  SizeDiff(k) \in 256..65535 => PushOp(k) = PUSH2 /\ Pushed(k) = SizeDiff(k)

\* Compile has returned the error for a PUSHSize of exactly 65536.
C10_Witness ==
    /\ pc = "done"
    /\ err = "pushing size: can't be represented with 2 bytes"
    /\ \E k \in OfKind("pushSize") : SizeDiff(k) = 65536

\* Bytecode() has returned opcodes and a nil error.
Solved == pc = "done" /\ err = "" /\ xform.typ # "unknown"

\* The stack after the EVM runs op on stack st (top first): SWAPk exchanges
\* slot 0 with slot k, DUPk pushes a copy of slot k-1, POP drops slot 0.
Exec(st, op) ==
    CASE op = POP -> Tail(st)
      [] op \in SWAP1..(SWAP1 + 15) ->
            [st EXCEPT ![1] = st[op - SWAP1 + 2], ![op - SWAP1 + 2] = st[1]]
      [] op \in DUP1..(DUP1 + 15) -> <<st[op - DUP1 + 1]>> \o st

RECURSIVE ExecAll(_, _, _)
ExecAll(st, ops, k) == IF k > Len(ops) THEN st ELSE ExecAll(Exec(st, ops[k]), ops, k + 1)

\* What lies on the stack below the slots of the Transformation.
Below == <<100, 101>>

\* C7: the opcodes that Bytecode() returns for a valid Permute(indices) or
\* Transform(depth)(indices), run in order on a stack whose top depth slots are
\* 0, 1, .., depth-1, leave indices as the top len(indices) slots and what was
\* below the depth slots untouched: the height changes by len(indices) - depth.
C7_ReshapeCorrect ==
    Solved =>
        LET final == ExecAll(rootNode(xform.depth) \o Below, ret, 1)
        IN /\ final = xform.indices \o Below
           /\ Len(final) - (xform.depth + Len(Below)) = Len(xform.indices) - xform.depth

\* A Transform that duplicates and drops has been solved with three opcodes or more.
C7_Witness ==
    /\ Solved
    /\ xform.typ = "general"
    /\ Len(ret) >= 3
    /\ \E k \in 1..Len(ret) : ret[k] = POP
    /\ \E k \in 1..Len(ret) : ret[k] \in DUP1..(DUP1 + 15)

\* The opcodes that the EVM can run on a stack of n slots of a Transformation.
Applicable(n) ==
    (IF Len(n) >= 1 THEN {POP} ELSE {})
        \cup {SWAP1 + (k - 1) : k \in 1..(Len(n) - 1)}
        \cup {DUP1 + (k - 1) : k \in 1..Len(n)}

\* The nodes that sequences of at most m applicable opcodes reach from those of S.
RECURSIVE Within(_, _)
Within(S, m) ==
    IF m = 0 THEN S
    ELSE Within(S \cup {Exec(n, op) : <<n, op>> \in UNION {{n} \X Applicable(n) : n \in S}}, m - 1)

\* C8: the opcodes that Bytecode() returns are as few as the fewest that an
\* exhaustive search over every applicable SWAP, DUP and POP needs: no shorter
\* sequence turns the root into indices.
C8_ReshapeOptimal ==
    (Solved /\ Len(ret) >= 1) =>
        xform.indices \notin Within({rootNode(xform.depth)}, Len(ret) - 1)

\* A Transform has been solved with four opcodes, a POP and a DUP among them.
C8_Witness ==
    /\ Solved
    /\ Len(ret) >= 4
    /\ \E k \in 1..Len(ret) : ret[k] = POP
    /\ \E k \in 1..Len(ret) : ret[k] \in DUP1..(DUP1 + 15)


\* ----------------------------------------------------------- names of tags

\* The number of JUMPDEST and Label nodes of the program that define t.
DefCount(t) == Cardinality({k \in 1..Len(flat) : IsTagged(flat[k]) /\ flat[k].tags[1] = t})

UndefinedTagError == "push of a tag without corresponding JUMPDEST/Label"
DuplicateTagError == "duplicate JUMPDEST/Label"

\* C11: a program compiles only if every tag that a pushTag, pushTags or
\* pushSize names is defined by exactly one JUMPDEST or Label, before or after
\* the push; a program that defines a tag twice (two JUMPDESTs, two Labels or
\* one of each) or names an undefined tag ends in an error, and the
\* undefined-tag and duplicate errors are returned for such programs only.
C11_TagsDefinedOnce ==
    pc = "done" =>
        /\ err = "" => \A t \in Referenced(flat) : DefCount(t) = 1
        /\ (\E t \in Tags : DefCount(t) >= 2) => err # ""
        /\ (\E t \in Referenced(flat) : DefCount(t) = 0) => err # ""
        /\ err = DuplicateTagError => \E t \in Tags : DefCount(t) >= 2
        /\ err = UndefinedTagError => \E t \in Referenced(flat) : DefCount(t) = 0

\* A tag named before its only definition compiles, a push of an undefined
\* tag is refused and so is a Label that repeats the tag of a JUMPDEST.
C11_Witness ==
    /\ pc = "done"
    /\ err = DuplicateTagError
    /\ \E t \in Tags : \E j, k \in 1..Len(flat) :
          /\ flat[j] = JUMPDEST(t)
          /\ flat[k] = Label(t)

C11_WitnessUndefined ==
    /\ pc = "done"
    /\ err = UndefinedTagError

C11_WitnessForward ==
    /\ Compiled
    /\ \E j, k \in 1..Len(flat) : j < k /\ flat[j] = pushTag("a") /\ flat[k] = Label("a")

\* --------------------------------------------------- SetDepth after JUMPDEST

\* C12: in every program that compiles, each JUMPDEST is immediately followed
\* by a SetDepth; a JUMPDEST that another node or no node follows makes
\* Compile return the "JUMPDEST must be followed by SetDepth" error.
C12_SetDepthFollowsJUMPDEST ==
    Compiled =>
        \A k \in 1..Len(flat) :
            flat[k].kind = "JUMPDEST" => k < Len(flat) /\ flat[k + 1].kind = "SetDepth"

\* The same for the JUMPDESTs that are not the last node.
C12_SetDepthFollowsInnerJUMPDEST ==
    Compiled =>
        \A k \in 1..(Len(flat) - 1) :
            flat[k].kind = "JUMPDEST" => flat[k + 1].kind = "SetDepth"

\* ------------------------------------------------------- the tracked depth

\* Compile is about to handle the node flat[i] of kind k in the default way
\* (no SetDepth is awaited).
AtNode(k) ==
    /\ pc = "CodeLoop"
    /\ i <= Len(flat)
    /\ flat[i].kind = k
    /\ ~requireStackDepthSetting

UnderflowError == "popping values with insufficient stack depth"

\* C13: for an opcode that a node other than Raw contributes, Compile returns
\* the underflow error if the tracked depth is less than the pop count of the
\* opcode and otherwise makes the depth depth - pop + push; the immediate
\* bytes of a PUSHn are skipped (a PUSH of a constant adds one whatever its
\* bytes are); the tracked depth is never negative.
C13_DepthTracking ==
    /\ [](stackDepth >= 0)
    /\ [][ /\ AtNode("Op") /\ stackDeltas(flat[i].n).ok =>
                LET d == stackDeltas(flat[i].n)
                IN IF stackDepth < d.pop
                   THEN err' = UnderflowError /\ pc' = "done"
                   ELSE err' = "" /\ stackDepth' = stackDepth - d.pop + d.push
           /\ AtNode("PUSH") => err' = "" /\ stackDepth' = stackDepth + 1 ]_vars

\* An ADD at depth 1 is refused for underflow.
C13_Witness ==
    /\ pc = "done"
    /\ err = UnderflowError
    /\ flat[i] = Op(ADD)
    /\ stackDepth = 1

\* PUSH(300), whose immediate bytes are those of ADD and of no opcode, has
\* compiled at depth 0.
C13_WitnessPUSH ==
    /\ Compiled
    /\ flat = <<SetDepth(0), PUSH(300)>>
    /\ stackDepth = 1

\* DUPn and SWAPn as opcodes.
IsDUP(o) == o >= DUP1 /\ o < DUP1 + 16
IsSWAP(o) == o >= SWAP1 /\ o < SWAP1 + 16

\* C14: a literal DUPn at a tracked depth below n, and a literal SWAPn at a
\* tracked depth below n + 1, makes Compile return the underflow error.
C14_DUPSWAPUnderflow ==
    [][ AtNode("Op") =>
          LET o == flat[i].n
          IN \/ IsDUP(o) /\ stackDepth < o - DUP1 + 1
             \/ IsSWAP(o) /\ stackDepth < o - SWAP1 + 2
             => err' = UnderflowError /\ pc' = "done" ]_vars

\* The same at depth 0 only, where the table rows (pop 1) refuse both.
C14_DUPSWAPAtDepthZero ==
    [][ AtNode("Op") /\ stackDepth = 0 /\ (IsDUP(flat[i].n) \/ IsSWAP(flat[i].n))
          => err' = UnderflowError /\ pc' = "done" ]_vars

\* C15: the tracked depth of a program that compiles is within 0..1024 after
\* each of its nodes, so it is after the last one, whether the depth comes
\* from pushes or from a SetDepth.
C15_DepthWithinLimit ==
    Compiled => stackDepth >= 0 /\ stackDepth <= StackLimit

\* ------------------------------------------------------------------ Inverted

\* The last byte of the buffer Compile is writing to.
LastByte(ss) == ss[Len(ss)].buf[Len(ss[Len(ss)].buf)].byte

\* The stack slot, counted from 0 at the bottom of a stack of d values, that
\* the opcode e reaches: DUPj copies the j-th value from the top, SWAPj
\* exchanges the top with the (j+1)-th.
SlotReached(e, d) == IF IsDUP(e) THEN d - (e - DUP1 + 1) ELSE d - (e - SWAP1 + 1) - 1

InvertedBase(o) == IF IsDUP(o) THEN DUP1 ELSE SWAP1
InvertedCap(o, d) == (IF d < 16 THEN d ELSE 16) - (IF IsSWAP(o) THEN 1 ELSE 0)

\* C16: at tracked depth d an Inverted(DUPk) or Inverted(SWAPk) that compiles
\* is written as the opcode base + (cap - offset - 1), of the same family, and
\* that opcode reaches the k-th slot from the bottom when d <= 16 and the slot
\* of bottom index k - 1 + d - 16 when d > 16.
C16_InvertedSubstitution ==
    [][ AtNode("Inverted") /\ err' = "" =>
          LET o == flat[i].n
              d == stackDepth
              k == o - InvertedBase(o) + 1
              e == LastByte(splices')
          IN /\ IsDUP(o) \/ IsSWAP(o)
             /\ e = InvertedBase(o) + (InvertedCap(o, d) - (k - 1) - 1)
             /\ IsDUP(o) => IsDUP(e)
             /\ IsSWAP(o) => IsSWAP(e)
             /\ SlotReached(e, d) = IF d <= 16 THEN k - 1 ELSE k - 1 + d - 16 ]_vars

\* Inverted(SWAP1) at depth 17 has compiled to SWAP15.
C16_Witness ==
    /\ Compiled
    /\ flat = <<SetDepth(17), Inverted(SWAP1)>>
    /\ out = <<Run(SWAP1 + 14, 1)>>

\* C17: for every DUP1..DUP16 and SWAP1..SWAP16 and every tracked depth,
\* Inverted(op) with offset >= cap makes Compile return an error: it does not
\* panic and writes no opcode.
C17_InvertedError ==
    [][ /\ AtNode("Inverted")
        /\ IsDUP(flat[i].n) \/ IsSWAP(flat[i].n)
        /\ flat[i].n - InvertedBase(flat[i].n) >= InvertedCap(flat[i].n, stackDepth)
        => /\ err' = "Inverted with insufficient stack depth"
           /\ pc' = "done"
           /\ splices' = splices ]_vars

\* The same at the tracked depths from 1 on.
C17_InvertedErrorAboveZero ==
    [][ /\ AtNode("Inverted")
        /\ stackDepth >= 1
        /\ IsDUP(flat[i].n) \/ IsSWAP(flat[i].n)
        /\ flat[i].n - InvertedBase(flat[i].n) >= InvertedCap(flat[i].n, stackDepth)
        => /\ err' = "Inverted with insufficient stack depth"
           /\ pc' = "done"
           /\ splices' = splices ]_vars

\* --------------------------------------------------------- depth preservation

\* The bytes of a buffer of runs.
RECURSIVE BufBytes(_)
BufBytes(buf) ==
    IF Len(buf) = 0 THEN <<>>
    ELSE [j \in 1..buf[1].n |-> buf[1].byte] \o BufBytes(Tail(buf))

\* The sum of push - pop over the opcodes of code, from index k, the bytes
\* that a PUSHn carries not being opcodes.
RECURSIVE DeltaSum(_, _)
DeltaSum(code, k) ==
    IF k > Len(code) THEN 0
    ELSE stackDeltas(code[k]).push - stackDeltas(code[k]).pop
         + DeltaSum(code, k + 1 + (IF code[k] >= PUSH0 /\ code[k] <= PUSH32
                                   THEN code[k] - PUSH0 ELSE 0))

\* The bytes that the step has appended to the buffer Compile writes to.
Appended ==
    LET old == BufBytes(splices[Len(splices)].buf)
        new == BufBytes(splices'[Len(splices)].buf)
    IN SubSeq(new, Len(old) + 1, Len(new))

\* The step changes the depth by the push - pop sum of the opcodes it writes.
StepPreservesDepth == stackDepth' - stackDepth = DeltaSum(Appended, 1)

\* The node of the step is handled without an error.
Handles(kinds) ==
    /\ pc = "CodeLoop"
    /\ i <= Len(flat)
    /\ flat[i].kind \in kinds
    /\ i' = i + 1

\* In the compiled code each lazy push is one PUSH opcode with the bytes it
\* carries, each JUMPDEST one JUMPDEST byte, and these and the buffers make
\* up the whole code.
LazyOpsInCode ==
    Compiled =>
        /\ \A k \in SpliceIdx :
              /\ IsPushLazy(splices[k].op) => PushOp(k) >= PUSH0 /\ PushOp(k) <= PUSH32
              /\ splices[k].op.kind = "JUMPDEST" => ByteAt(out, OpStart(k)) = JUMPDESTOp
        /\ OpStart(Len(splices)) = OutLen(out)

\* C18: every node other than Raw that Compile handles changes the tracked
\* depth by the sum of push - pop over the opcodes it contributes to the
\* code: a pushTag, pushTags and pushSize add 1 and contribute one PUSH, a
\* JUMPDEST and a Label add 0.
C18_DepthPreservation ==
    /\ [][ Handles({"Op", "PUSH", "Inverted", "ExpectDepth", "SetDepth"})
             => StepPreservesDepth ]_vars
    /\ [][ Handles({"pushTag", "pushTags", "pushSize"}) => stackDepth' = stackDepth + 1 ]_vars
    /\ [][ Handles({"JUMPDEST", "Label"}) => stackDepth' = stackDepth ]_vars
    /\ []LazyOpsInCode

\* C18, amended: the same for every node other than Raw and SetDepth.
C18_DepthPreservationButSetDepth ==
    /\ [][ Handles({"Op", "PUSH", "Inverted", "ExpectDepth"}) => StepPreservesDepth ]_vars
    /\ [][ Handles({"pushTag", "pushTags", "pushSize"}) => stackDepth' = stackDepth + 1 ]_vars
    /\ [][ Handles({"JUMPDEST", "Label"}) => stackDepth' = stackDepth ]_vars
    /\ []LazyOpsInCode

\* The program of one SetDepth(1) has compiled: no byte, and a depth of 1.
C18_SetDepthCompiles ==
    /\ Compiled
    /\ flat = <<SetDepth(1)>>
    /\ stackDepth = 1
    /\ out = <<>>

\* A lazy push before its Label has compiled from depth 2 to depth 3.
C18_Witness ==
    /\ Compiled
    /\ flat = <<SetDepth(2), pushTag("a"), Label("a")>>
    /\ stackDepth = 3

\* ------------------------------------------------------------ empty pushTags

PushLenError == "len(ToPush()) must be in [1,32]"

\* C19: a pushTags of no tags has no effect: it leaves the tracked depth as
\* it is, reserves no byte, is not the reason for an error of Compile, and a
\* program of nothing but such a node compiles to no bytes.
C19_EmptyPushTagsNoEffect ==
    /\ [][ Handles({"pushTags"}) /\ flat[i].tags = <<>> => stackDepth' = stackDepth ]_vars
    /\ [](\A k \in SpliceIdx : splices[k].op = pushTags(<<>>) => splices[k].reserved = 0)
    /\ [](err # PushLenError)
    /\ [](pc = "done" /\ flat = <<pushTags(<<>>)>> => err = "" /\ out = <<>>)

\* Each part of C19 on its own.
C19_EmptyPushTagsDepth ==
    [][ Handles({"pushTags"}) /\ flat[i].tags = <<>> => stackDepth' = stackDepth ]_vars

C19_EmptyPushTagsReserved ==
    \A k \in SpliceIdx : splices[k].op = pushTags(<<>>) => splices[k].reserved = 0

C19_EmptyPushTagsCompiles ==
    pc = "done" /\ flat = <<pushTags(<<>>)>> => err = "" /\ out = <<>>

\* ------------------------------------------------------------------- WithOps

\* The opcodes of ops, from the k-th, run on the stack st as the EVM runs
\* them: ok is whether each finds the slots it touches.
RECURSIVE ExecChecked(_, _, _)
ExecChecked(st, ops, k) ==
    IF k > Len(ops) THEN [ok |-> TRUE, st |-> st]
    ELSE IF ops[k] \notin Applicable(st) THEN [ok |-> FALSE, st |-> st]
    ELSE ExecChecked(Exec(st, ops[k]), ops, k + 1)

\* The request is one that Permute or Transform accepts.
ValidRequest ==
    \/ xform.typ = "permutation" /\ permutationSize(xform).err = ""
    \/ xform.typ = "general" /\ generalSize(xform).err = ""

\* The opcodes given to WithOps turn the root into the requested indices.
OverrideReaches ==
    LET r == ExecChecked(rootNode(xform.depth), xform.override, 1)
    IN r.ok /\ r.st = xform.indices

\* C20: with WithOps(ops) set on a valid request, Bytecode() does not search;
\* it returns ops as they are if they turn the root 0..depth-1 into the
\* requested indices, and an error (no panic) in every other case, an empty
\* ops for a request other than the identity and ops that reach beyond the
\* stack included.
C20_WithOpsVerified ==
    /\ [](pc # "bfs")
    /\ [](pc = "done" /\ ValidRequest =>
            IF OverrideReaches
            THEN err = "" /\ ret = xform.override
            ELSE err # "" /\ err # "panic" /\ ret = <<>>)

\* The same for the ops that are not empty and that the EVM can run on the
\* root.
C20_WithOpsVerifiedInRange ==
    [](pc = "done" /\ ValidRequest /\ Len(xform.override) # 0
         /\ ExecChecked(rootNode(xform.depth), xform.override, 1).ok =>
            IF OverrideReaches
            THEN err = "" /\ ret = xform.override
            ELSE err = "invalid WithOps() config" /\ ret = <<>>)

\* The two cases that C20 names, each on its own.
C20_EmptyOpsNotSearched ==
    pc = "done" /\ ValidRequest /\ xform.override = <<>>
        /\ xform.indices # rootNode(xform.depth) => err # ""

C20_OpsBeyondStackNoPanic ==
    pc = "done" => err # "panic"

\* Transform(1)(0).WithOps(SWAP1) has ended in a panic.
C20_PanicReached ==
    /\ pc = "done"
    /\ err = "panic"
    /\ xform = [typ |-> "general", depth |-> 1, indices |-> <<0>>, override |-> <<SWAP1>>]

\* ------------------------------------------------------ Permute and Transform

\* Bytecode() has returned, for a Permute or for a Transform.
Returned(typ) == pc = "done" /\ xform.typ = typ

\* is holds each of 0..Len(is)-1 exactly once.
IsPermutation(is) ==
    /\ Len(is) <= 16
    /\ \A v \in 0..(Len(is) - 1) : Cardinality({k \in 1..Len(is) : is[k] = v}) = 1

\* C21: Permute(indices).Bytecode() returns an error exactly when indices is
\* not a permutation of 0..n-1 with n <= 16, and for an accepted request it
\* returns only opcodes of SWAP1..SWAP(n-1).
C21_PermuteAccepts ==
    Returned("permutation") =>
        /\ err # "" <=> ~IsPermutation(xform.indices)
        /\ err = "" =>
              \A k \in 1..Len(ret) :
                  ret[k] >= SWAP1 /\ ret[k] <= SWAP1 + Len(xform.indices) - 2

\* The same for the requests of one index or more.
C21_PermuteAcceptsNonEmpty ==
    Returned("permutation") /\ Len(xform.indices) >= 1 =>
        /\ err # "" <=> ~IsPermutation(xform.indices)
        /\ err = "" =>
              \A k \in 1..Len(ret) :
                  ret[k] >= SWAP1 /\ ret[k] <= SWAP1 + Len(xform.indices) - 2

\* C22: Transform(depth)(indices).Bytecode() returns an error exactly when
\* depth > 16 or an index is >= depth; for every other request, with indices
\* fewer, as many or more than depth and with or without repeats, the search
\* returns a sequence of opcodes.
C22_TransformAccepts ==
    Returned("general") =>
        (err # "" <=>
            \/ xform.depth > 16
            \/ \E k \in 1..Len(xform.indices) : xform.indices[k] >= xform.depth)

\* The same for a depth of 1 or more and at most MaxIndices indices.
C22_TransformAcceptsShort ==
    Returned("general") /\ xform.depth >= 1 /\ Len(xform.indices) <= MaxIndices =>
        (err # "" <=>
            \/ xform.depth > 16
            \/ \E k \in 1..Len(xform.indices) : xform.indices[k] >= xform.depth)

\* Transform(1) of twenty indices 0 has ended in the error of apply.
C22_UnsupportedReached ==
    /\ Returned("general")
    /\ xform.depth = 1
    /\ Len(xform.indices) = 20
    /\ err = "unsupported transformation"

\* ------------------------------------------------------------ pushes of bytes

\* C23: PUSHBytes of a byte string b of 1 to 32 bytes compiles to the opcode
\* PUSH0 + m followed by the last m bytes of b, where m is the length of b
\* less its leading zero bytes (PUSH0 alone when m = 0); the immediate bytes
\* read as a big-endian integer are the value v of b, and m is the least
\* number of bytes that hold v; so inputs that differ only in leading zero
\* bytes compile to the same code.
PushedBytes == flat[1].tags

IsPushBytes == Len(flat) = 1 /\ flat[1].kind = "bytesPusher"

RECURSIVE DropZeroes(_)
DropZeroes(bs) ==
    IF Len(bs) = 0 \/ bs[1] # 0 THEN bs ELSE DropZeroes(Tail(bs))

C23_WitnessPUSH0 ==
    /\ IsPushBytes
    /\ pc = "done"
    /\ PushedBytes = Zeroes(32)
    /\ BufBytes(out) = <<PUSH0>>

\* C24: PUSHSelector(sig) compiles to five bytes for every signature: PUSH4
\* followed by the first four bytes of the hash of sig, whatever they are.
C24_SelectorFiveBytes ==
    (Len(flat) = 1 /\ flat[1].kind = "PUSHSelector" /\ pc = "done") =>
        /\ err = ""
        /\ BufBytes(out) = <<PUSH0 + 4>> \o flat[1].tags

\* Of the signatures whose hash starts with a byte other than zero.
C24_SelectorFiveBytesNonZero ==
    (Len(flat) = 1 /\ flat[1].kind = "PUSHSelector" /\ pc = "done"
        /\ flat[1].tags[1] # 0) =>
        /\ err = ""
        /\ BufBytes(out) = <<PUSH0 + 4>> \o flat[1].tags

\* A hash that starts with two zero bytes has compiled to a PUSH2.
C24_ShortSelectorReached ==
    /\ Len(flat) = 1 /\ flat[1].kind = "PUSHSelector" /\ pc = "done"
    /\ flat[1].tags = <<0, 0, 1, 255>>
    /\ BufBytes(out) = <<PUSH0 + 2, 1, 255>>

\* ------------------------------------------------------------------- flatten

\* The expressions a program is written with: leaves, and Fn and Block (a
\* Code literal) of expressions.
FnTerm(args) == [term |-> "Fn", args |-> args]
BlockTerm(args) == [term |-> "Block", args |-> args]
LeafTerm(l) == [term |-> "leaf", args |-> <<l>>]

TermsOver(S) ==
    {FnTerm(a) : a \in ArgSeqs(S)} \cup {BlockTerm(a) : a \in ArgSeqs(S)}

LeafTerms == {LeafTerm(l) : l \in Leaves}

Terms == LeafTerms \cup TermsOver(LeafTerms \cup TermsOver(LeafTerms))

\* The Bytecoder that the expression t evaluates to.
RECURSIVE Build(_)
Build(t) ==
    IF t.term = "leaf" THEN t.args[1]
    ELSE LET kids == [j \in 1..Len(t.args) |-> Build(t.args[j])]
         IN IF t.term = "Fn" THEN Fn(kids) ELSE Code(kids)

\* The leaves of the expression t: those of the children of a Fn from the
\* last child to the first, those of the children of a Block in order.
RECURSIVE LeavesOf(_)
RECURSIVE LeavesFrom(_, _, _)
LeavesFrom(args, j, step) ==
    IF j < 1 \/ j > Len(args) THEN <<>>
    ELSE LeavesOf(args[j]) \o LeavesFrom(args, j + step, step)

LeavesOf(t) ==
    IF t.term = "leaf" THEN t.args
    ELSE IF t.term = "Fn" THEN LeavesFrom(t.args, Len(t.args), -1)
    ELSE LeavesFrom(t.args, 1, 1)

\* Compile has flattened c and CodeLoop has not started.
Flattened == pc = "CodeLoop" /\ i = 1

\* C25: flatten replaces every Fn by the flattened sequences of its children
\* in reverse order and every Block by those of its children in order, and
\* leaves no holder; so Fn(a, Fn(b, c)) and Fn(Fn(a, b), c) flatten to the
\* same leaves, and a tree flattens as the Block of that tree does.
C25_Flatten ==
    Flattened =>
        /\ \A k \in 1..Len(flat) : flat[k] \in Leaves
        /\ \A t \in Terms :
              /\ c = <<Build(t)>> => flat = LeavesOf(t)
              /\ c = <<Build(BlockTerm(<<t>>))>> => flat = LeavesOf(t)
        /\ \A x, y, z \in Leaves :
              c \in {<<Fn(<<x, Fn(<<y, z>>)>>)>>, <<Fn(<<Fn(<<x, y>>), z>>)>>}
                  => flat = <<z, y, x>>

C25_Witness ==
    /\ pc = "done"
    /\ c = <<Fn(<<PUSH(1), Fn(<<PUSH(2), Op(MSIZE)>>)>>)>>
    /\ flat = <<Op(MSIZE), PUSH(2), PUSH(1)>>
    /\ BufBytes(out) = <<MSIZE, PUSH1, 2, PUSH1, 1>>

C25_WitnessOther ==
    /\ pc = "done"
    /\ c = <<Code(<<Fn(<<Fn(<<PUSH(1), PUSH(2)>>), Op(MSIZE)>>)>>)>>
    /\ flat = <<Op(MSIZE), PUSH(2), PUSH(1)>>

\* ------------------------------------------------------------ error indices

\* Compile has returned an error.
CompileError == pc = "done" /\ xform.typ = "unknown" /\ err # "" /\ err # "panic: BUG: bad inversion"

\* C26: every error that Compile returns carries the index, in the flattened
\* sequence, of the node that caused it, whatever the kind of the error.
C26_ErrorCarriesIndex ==
    CompileError => errAt \in 0..(Len(flat) - 1)

\* The errors of a depth mismatch, of an underflow, of a byte that is no
\* opcode, of a missing SetDepth and of an inversion beyond the depth carry
\* the index of the node that CodeLoop stopped at.
C26_PosErrCarriesIndex ==
    (CompileError /\ err \in {"stack depth when expecting another",
                               "popping values with insufficient stack depth",
                               "invalid opcode as byte returned by Bytecode()",
                               "JUMPDEST must be followed by SetDepth",
                               "Inverted with insufficient stack depth"}) =>
        errAt = i - 1 /\ errAt \in 0..(Len(flat) - 1)

\* A second Label of the same tag has ended Compile with an error that
\* carries no index.
C26_DuplicateWithoutIndex ==
    /\ CompileError
    /\ flat = <<Label("a"), Label("a")>>
    /\ err = "duplicate JUMPDEST/Label"
    /\ errAt = NoIndex

\* -------------------------------------------------------------- Toggle.Close

\* Goroutine g is inside Wait() and cannot take a step.
BlockedInWait(g) ==
    \/ gor[g].pc = "Wait" /\ tog.locked
    \/ gor[g].pc = "Wait:select" /\ tog.buf = 0 /\ ~tog.closed
    \/ gor[g].pc = "Wait:send" /\ tog.buf = 1 /\ ~tog.closed

\* C29: once a Toggle is closed, no Wait() blocks or crashes, and every
\* Wait() that returns, begun before or after Close(), returns
\* ErrToggleClosed, whether the Toggle was on or off when it was closed.
C29_WaitAfterClose ==
    /\ NoPanic
    /\ tog.closed =>
          \A g \in Waiters :
              /\ ~BlockedInWait(g)
              /\ (gor[g].pc = "idle" /\ gor[g].late) => gor[g].res = "ErrToggleClosed"

\* Of a Toggle that is off when it is closed.
C29_WaitAfterCloseOff ==
    (tog.closed /\ ~tog.state) =>
        /\ NoPanic
        /\ \A g \in Waiters :
              /\ ~BlockedInWait(g)
              /\ (gor[g].pc = "idle" /\ gor[g].late) => gor[g].res = "ErrToggleClosed"

\* A Wait() called after Close() on a Toggle that is on has panicked.
C29_LateWaitPanics ==
    /\ tog.closed /\ tog.state
    /\ \E g \in Waiters : gor[g].pc = "panic" /\ gor[g].late

\* A Wait() called after Close() on a Toggle that is off has returned.
C29_LateWaitReturns ==
    /\ tog.closed /\ ~tog.state
    /\ \E g \in Waiters : gor[g].pc = "idle" /\ gor[g].late
                             /\ gor[g].res = "ErrToggleClosed"

\* ----------------------------------------------------------------- Debugger

\* The caller is between two calls, and method is the one that returned last.
ReturnedFrom(method) == gor["caller"].pc = "idle" /\ gor["caller"].call = method

\* A channel of the Debugger was closed twice, or sent on after its close.
ChannelMisuse ==
    \E g \in DOMAIN gor :
        /\ gor[g].pc = "panic"
        /\ gor[g].res \in {"send on closed channel step", "send on closed channel stepped",
                            "close of closed channel step",
                            "close of closed channel fastForward",
                            "close of closed channel done",
                            "close of closed channel stepped"}

\* C27: FastForward() may be called at any time, after Done() is true and
\* more than once: when it has returned the execution has ended and Done()
\* is true, and in no interleaving is a channel of the Debugger closed twice
\* or sent on after its close, Step not being called once Done() is true.
C27_FastForward ==
    /\ ReturnedFrom("FastForward") =>
          /\ Closed("done")
          /\ gor["evm"].pc \in {"close:stepped", "Set", "Set:chan", "end"}
          /\ machine.executed = machine.n
    /\ ~ChannelMisuse

\* FastForward() has returned at once, called after the Step() that ended the
\* execution and ran d.close(true).
C27_Witness ==
    /\ ReturnedFrom("FastForward")
    /\ gor["caller"].arg
    /\ machine.n = 1
    /\ chans = {"step", "fastForward", "stepped", "done"}

\* FastForward() has returned as the third call of a session that has run
\* two opcodes and the one that ends the execution.
C27_WitnessThird ==
    /\ ReturnedFrom("FastForward")
    /\ gor["caller"].n = 3
    /\ machine.n = 2
    /\ machine.executed = 2

\* The only panic is that of a Debugger.Wait() called once done is closed:
\* no Step and no FastForward crashes, in the Toggle or elsewhere.
C27_OnlyLateWaitPanics ==
    \A g \in DOMAIN gor :
        gor[g].pc = "panic" => g = "caller" /\ gor[g].call = "Wait" /\ gor[g].late

\* Debugger.Wait() after the end of an execution has panicked in the Toggle.
C27_WaitAfterDonePanics ==
    /\ gor["caller"].pc = "panic"
    /\ gor["caller"].call = "Wait"
    /\ Closed("done")

\* C28: when Step() has returned and Done() is false, the opcode that the
\* Step released has been executed in full and the EVM goroutine is blocked
\* before the next one; and while the caller is between two calls the
\* machine does not change, so it never shows a half-executed opcode.
C28_StepSynchronised ==
    /\ [](ReturnedFrom("Step") /\ ~Closed("done") =>
            /\ ~machine.half
            /\ machine.executed = machine.last
            /\ machine.k = machine.last + 1
            /\ gor["evm"].pc = "select")
    /\ [](gor["caller"].pc = "idle" => ~machine.half)
    /\ [][gor["caller"].pc = "idle" /\ gor'["caller"].pc = "idle" => machine' = machine]_vars

\* Two Steps have returned and two opcodes are executed.
C28_Witness ==
    /\ ReturnedFrom("Step")
    /\ ~Closed("done")
    /\ gor["caller"].n = 2
    /\ machine.executed = 2
    /\ gor["evm"].pc = "select"


\* ------------------------------------------------- programs about the layout

\* The greatest number of fragments of the programs of InitLayout.
MaxLayoutFrags == 4
\* The lengths of their Raw nodes: after a PUSH of one byte they place a tag
\* at 255 and at 256.
LayoutRawSizes == {253, 254}

LayoutFrags ==
    {<<Raw(n)>> : n \in LayoutRawSizes}
    \cup {<<Label("a")>>, <<JUMPDEST("b"), SetDepth(0)>>}
    \cup {<<pushTag("b")>>, <<pushTags(<<"a", "b">>)>>}

InitLayout ==
    /\ \E k \in 1..MaxLayoutFrags : \E fs \in [1..k -> LayoutFrags] :
          /\ Referenced(Concat(fs)) \subseteq Defined(Concat(fs))
          /\ CompileInit(Concat(fs))
    /\ StackIdle
    /\ GoIdle

SpecLayout == InitLayout /\ [][Next]_vars

\* ------------------------------------------------- the layout as a fixpoint

\* The push splices of the program, and the ways of giving each of them a
\* number of bytes (its PUSH and what the PUSH carries).
PushSplices == {k \in SpliceIdx : IsPushLazy(splices[k].op)}
Widths == [PushSplices -> 1..(1 + 2 * MaxTags)]

\* The bytes splice k's operation takes under the widths A.
WidthUnder(k, A) ==
    IF k \in PushSplices THEN A[k]
    ELSE IF splices[k].op.kind = "JUMPDEST" THEN 1 ELSE 0

\* The offset of splice k's operation under the widths A.
RECURSIVE OffsetUnder(_, _)
OffsetUnder(k, A) ==
    IF k = 1 THEN OutLen(splices[1].buf)
    ELSE OffsetUnder(k - 1, A) + WidthUnder(k - 1, A) + OutLen(splices[k].buf)

\* What push splice k carries when its tags sit where A places them: the
\* offset of the tag, the distance of the two tags, or the offsets of the tags
\* side by side, one byte each unless one of them is 256 or more.
CarriedUnder(k, A) ==
    LET s == splices[k]
        at == [j \in 1..Len(s.tags) |-> OffsetUnder(s.tags[j], A)]
    IN CASE s.op.kind = "pushTag" -> BigEndianLow(at[1], 2)
         [] s.op.kind = "pushSize" -> BigEndianLow(absDiff(at[1], at[2]), 2)
         [] OTHER ->
              LET w == IF \E j \in 1..Len(at) : at[j] >= 256 THEN 2 ELSE 1
              IN Concat([j \in 1..Len(at) |-> BigEndianLow(at[j], w)])

\* The widths A are self-consistent: every push is given exactly the bytes
\* that the least push of what it carries takes.
Consistent(A) ==
    \A k \in PushSplices : A[k] = 1 + Len(DropZeroes(CarriedUnder(k, A)))

\* Every offset of the layout fits the two bytes a reference has at most.
FitsTwoBytes(A) == \A k \in SpliceIdx : OffsetUnder(k, A) <= MaxUint16

Laid == [k \in PushSplices |-> splices[k].reserved]

\* Push splice k names a tag that comes after it.
ForwardRef(k) == \E j \in 1..Len(splices[k].tags) : splices[k].tags[j] > k

\* C30: when expansion has ended, the layout is a self-consistent assignment
\* of widths that places every label at the smallest offset any self-consistent
\* assignment allows; so a label that some self-consistent layout places at
\* 255 or less ends at 255 or less, and the pushes of it carry one byte.
C30_LeastFixpoint ==
    (pc = "bytes" /\ FitsTwoBytes(Laid)) =>
        /\ Consistent(Laid)
        /\ \A k \in SpliceIdx : IsTagged(splices[k].op) =>
              splices[k].offset = OffsetUnder(k, Laid)
        /\ \A A \in Widths : (Consistent(A) /\ FitsTwoBytes(A)) =>
              \A k \in SpliceIdx : IsTagged(splices[k].op) =>
                  /\ splices[k].offset <= OffsetUnder(k, A)
                  /\ (OffsetUnder(k, A) <= 255) =>
                        \A m \in OfKind("pushTag") :
                            splices[m].tags[1] = k => splices[m].reserved <= 2

\* leadingZeroes() counts one zero byte where the code has two or more: the
\* first tag of a PUSH of several tags is at offset 0 and a tag is at 256 or
\* more.
ZeroesMiscounted ==
    \E k \in OfKind("pushTags") :
        /\ Len(splices[k].tags) > 0
        /\ Off(k, 1) = 0
        /\ bytesPerTag(splices, splices[k]) = 2

\* The same holds of every layout in which leadingZeroes() counts the zero
\* bytes of every push rightly.
C30_LeastFixpointCounted ==
    ~ZeroesMiscounted => C30_LeastFixpoint

\* A forward-referenced label is kept at 255 by the one-byte push of it while
\* the widths that place it at 256 with a two-byte push are self-consistent too.
C30_TwoFixpoints ==
    /\ pc = "bytes"
    /\ Consistent(Laid)
    /\ \E m \in OfKind("pushTag") :
          /\ ForwardRef(m)
          /\ splices[m].reserved = 2
          /\ Off(m, 1) = 255
          /\ \E A \in Widths :
                /\ Consistent(A)
                /\ A[m] = 3
                /\ OffsetUnder(splices[m].tags[1], A) = 256

\* The miscounted layout: expansion has ended one byte beyond the least
\* self-consistent layout.
C30_Miscounted ==
    /\ pc = "bytes"
    /\ ZeroesMiscounted
    /\ FitsTwoBytes(Laid)
    /\ ~Consistent(Laid)

====
